---- MODULE Spec2Model ----
(***************************************************************************)
(* A model of the OpenEMS client layer of the ha_openems integration       *)
(* (custom_components/openems/openems.py): the edge's channel registry,    *)
(* the inbound dispatch of currentData snapshots to the registered         *)
(* channels, connection-loss handling, property writes, and the two        *)
(* cooperative tasks of a backend (reconnect task, subscription updater).  *)
(*                                                                         *)
(* The modelled edge owns two channels:                                    *)
(*   "S"  a plain sensor channel (OpenEMSChannel) named N_S, and           *)
(*   "P"  a number property (OpenEMSNumberProperty) named N_P whose        *)
(*        multiplier expression references the channel N_S and whose       *)
(*        limit expressions are the constants LowerDef and UpperDef.       *)
(***************************************************************************)
EXTENDS Integers, Sequences, FiniteSets, TLC

(* ------------------------------ bounds -------------------------------- *)

\* Raw integer values the device reports are 0 .. MaxRaw.
MaxRaw == 1

\* Sessions are numbered 1 .. MaxConn, and session MaxConn does not drop.
MaxConn == 3

\* The updater's revision counter is followed up to MaxCount.
MaxCount == 2

\* stop() is called at most MaxStops times.
MaxStops == 2

(* ------------------------ the modelled channels ----------------------- *)

N_S == "evcs1/Phases"
N_P == "evcs1/_PropertyForceChargeMinPower"

Names == {N_S, N_P}

Handlers == {"S", "P"}

\* OpenEMSNumberProperty.STEPS
STEPS == 200

\* The limit definition {"lower": "1", "upper": "100"} of the number property.
LowerDef == 1
UpperDef == 100

(* ------------------------------ values -------------------------------- *)

\* A JSON value sent by the device: null or an integer.
NoneV == [t |-> "none", v |-> 0]
IntV(n) == [t |-> "int", v |-> n]

RawValues == {NoneV} \cup {IntV(n) : n \in 0..MaxRaw}

IsInt(x) == x.t = "int"

\* A JSON number with a fraction: n + 0.5.
FloatV(n) == [t |-> "float", v |-> n, tenths |-> 5]

\* A currentData snapshot: a dict name -> value in the order the device sent
\* it, as a sequence of entries with distinct names.
Entry(n, x) == [name |-> n, value |-> x]

Snapshots ==
  {<<Entry(n, x)>> : n \in Names, x \in RawValues}
    \cup UNION {{<<Entry(n, x), Entry(m, y)>> :
                   m \in Names \ {n}, x \in RawValues, y \in RawValues} :
                 n \in Names}

RECURSIVE SnapshotNames(_)
SnapshotNames(params) ==
  IF params = <<>> THEN {}
  ELSE {Head(params).name} \cup SnapshotNames(Tail(params))

(* ------------------------------- state -------------------------------- *)

VARIABLES
  registered_channels,   \* OpenEMSEdge._registered_channels: [keys, sets]
  current_channel_data,  \* OpenEMSEdge.current_channel_data
  callback,              \* OpenEMSChannel.callback is set, per channel
  current_value,         \* OpenEMSChannel._current_value, per channel
  number,                \* the number property's reference value and config
  write,                 \* the property write in progress, if any
  last,                  \* the most recent edge operation and what it did
  rpc_server,            \* the websocket session: [connected, conn, authed, ...]
  backend,               \* OpenEMSBackend: [rpc_server_task, reconnect_task,
                         \*   pc (of _reconnect_forever), stop (of stop()), ...];
                         \*   called: set_unavailable was invoked since the
                         \*   latest connect attempt ended, marked: since
                         \*   the latest session was opened
  updater,               \* OpenEmsEdgeChannelSubscriptionUpdater and its task:
                         \*   [active_subscriptions, count, pc, ...]; before
                         \*   is _count when the current pass began, failed
                         \*   tells that the latest push raised
  env,                   \* the server's behaviour: [accepts]
  component_config,      \* OpenEMSEdge._component_config
  rpc,                   \* the most recent inbound edgeRpc notification
  group,                 \* a component's update group: [rule, values, ...]
  disc,                  \* a run of read_components: [pc, todo, components, ...]
  setup,                 \* async_setup_entry: [pc, aux, aux_open, cause]
  classify,              \* a run of prepare_entities over the channels
  enum_property,         \* an OpenEMSEnumProperty: [options, current_value, ...]
  time_property          \* an OpenEMSTimeProperty: [current_value, ...]

edgeVars == <<registered_channels, current_channel_data, callback,
              current_value, number, write, last>>

connVars == <<rpc_server, backend, updater, env>>

\* State of the parts that the edge's channel operations and the backend's
\* tasks do not touch.
propVars == <<classify, enum_property, time_property>>

auxVars == <<component_config, rpc, group, disc, setup, propVars>>

vars == <<registered_channels, current_channel_data, callback, current_value,
          number, write, last, rpc_server, backend, updater, env,
          component_config, rpc, group, disc, setup, propVars>>

(* ----------------------- inbound notifications ------------------------- *)

\* The id of the edge the backend owns (the_edge.id) and a foreign one.
OwnedEdge == "edge0"
EdgeIds == {"edge0", "edge1"}

\* Names a notification may carry as its method, by what getattr(the_edge,
\* name) gives: the two notification handlers; another method taking one
\* argument; methods taking no argument; an attribute that is no method; a
\* name the edge does not have.
NotificationHandlers == {"currentData", "edgeConfig"}
MethodNames ==
  NotificationHandlers
    \cup {"set_component_config", "set_unavailable", "stop", "hostname",
          "unknownMethod"}

\* Component configurations the device reports.
Configs == {"cfg0", "cfg1"}

\* What _component_config holds: the components dict c itself (whole =
\* FALSE), or the whole params dict {"components": c} (whole = TRUE).
StoredConfig(whole, c) == [whole |-> whole, components |-> c]

(* --------------------------- update groups ----------------------------- *)

\* Channel names "_Property" + first + rest of three properties of one
\* component: _PropertyMode, _PropertyPower, _PropertyEnabled.
PropX == [first |-> "M", rest |-> "ode"]
PropA == [first |-> "P", rest |-> "ower"]
PropB == [first |-> "E", rest |-> "nabled"]
GroupProps == {PropX, PropA, PropB}

\* str.lower() of one letter
Lower(c) ==
  CASE c = "M" -> "m" [] c = "P" -> "p" [] c = "E" -> "e" [] c = "A" -> "a"
    [] OTHER -> c

\* name[9].lower() + name[10:]
ConfigName(n) == [first |-> Lower(n.first), rest |-> n.rest]

\* CONFIG.update_group_members for PropX: (rule["requires"],
\* rule.get("when")), or ([], None) without a rule.
NoRule == [requires |-> <<>>, when |-> NoneV]
Rules ==
  {[requires |-> r, when |-> w] :
     r \in {<<>>, <<PropA>>, <<PropA, PropB>>}, w \in RawValues}

\* The component's properties with no value received, nothing written;
\* new_value, at, sent and result describe the most recent write: the value
\* written, the properties' values at that time, the RPCs it sent.
GroupInit(rule) ==
  [rule |-> rule, values |-> [n \in GroupProps |-> NoneV],
   new_value |-> NoneV, at |-> [n \in GroupProps |-> NoneV],
   sent |-> <<>>, result |-> "none"]

(* --------------------------- classification --------------------------- *)

\* A limit or multiplier expression of the catalog, by its shape: a number
\* ("5"), a word that is no number ("abc"), a reference {{meter0/Power}},
\* an indirection {{$evcs.id/Power}}, a placeholder without a slash
\* ({{meter0}}), text jinja2 cannot parse ("1 +"), a value that is no string.
ExprShapes ==
  {"number", "word", "ref", "indirect", "noslash", "malformed", "nonstring"}

\* The channels of a component's JSON: a sensor channel, or an INTEGER
\* _Property channel whose catalog limit has the given shape.
SensorDef == [type |-> "sensor", expr |-> "number"]
NumberDef(e) == [type |-> "number", expr |-> e]
ChannelDefs == {SensorDef} \cup {NumberDef(e) : e \in ExprShapes}

\* The property the catalog's indirection names.
RefProperty == "evcs.id"

\* How many channels the edge's components hold in a classification run.
MaxChannels == 3

\* with_channels: the entries of the configuration that carry a channel
\* list; components: edge.components, in dict order; hostname as the
\* sequence of its parts.
ClassifyIdle ==
  [pc |-> "idle", channels |-> <<>>, json_properties |-> {}, i |-> 1,
   kept |-> {}, dropped |-> {}, cause |-> "none",
   with_channels |-> {}, multi_edge |-> FALSE, components |-> <<>>,
   hostname |-> <<>>]

(* ------------------------- enum and time values ------------------------ *)

\* A JSON string, as the sequence of its characters.
StrV(s) == [t |-> "str", v |-> 0, s |-> s]

IsStr(x) == x.t = "str"

IsNone(x) == x.t = "none"

\* The longest string an enum channel sends or has as an option.
MaxStrLen == 1

\* The most options an enum property is constructed with.
MaxOptions == 2

Chars == {"A", "a", " ", "_"}

Strings == UNION {[1..n -> Chars] : n \in 1..MaxStrLen}

\* v.lower().replace(" ", "_")
Normalise(s) ==
  [i \in 1..Len(s) |-> IF Lower(s[i]) = " " THEN "_" ELSE Lower(s[i])]

\* {v.lower().replace(" ", "_"): v for v in options}: of two options with
\* the same key the later one stays.
OptionsDict(options) ==
  [k \in {Normalise(options[i]) : i \in DOMAIN options} |->
     LET Is == {i \in DOMAIN options : Normalise(options[i]) = k}
     IN  options[CHOOSE i \in Is : \A j \in Is : j <= i]]

\* init_channels builds an enum property only for a non-empty options list.
OptionLists == UNION {[1..n -> Strings] : n \in 1..MaxOptions}

\* What an enum channel receives: null, a number or a string.
EnumRaw == RawValues \cup {StrV(s) : s \in Strings}

\* OpenEMSEnumProperty.__init__ with the given option strings; fed is the
\* raw value of the latest update, n whether there was one.
EnumInit(options) ==
  [given |-> options, options |-> OptionsDict(options),
   current_value |-> NoneV, fed |-> NoneV, n |-> 0]

\* The largest value of a C int, the type of the arguments of
\* datetime.time.
CIntMax == 2147483647

\* One field of a string split at ":": text int() accepts, with its value
\* n, or with wide when the value is beyond CIntMax; or other text.
Word == [numeric |-> FALSE, wide |-> FALSE, n |-> 0]
Num(n) == [numeric |-> TRUE, wide |-> FALSE, n |-> n]
Wide == [numeric |-> TRUE, wide |-> TRUE, n |-> 0]

FieldValues == {-1, 0, 23, 24, 59, 60, CIntMax}

Fields == {Word, Wide} \cup {Num(n) : n \in FieldValues}

\* The most fields (one more than the colons) of a string a time channel
\* sends.
MaxFields == 3

\* A JSON string, as the sequence value.split(":") returns.
TimeStr(fs) == [t |-> "str", v |-> 0, fields |-> fs]

\* datetime.time(h, m)
TimeV(h, m) == [t |-> "time", v |-> 0, h |-> h, m |-> m]

\* What a time channel receives: null, a number or a string.
TimeRaw ==
  RawValues \cup
    {TimeStr(fs) : fs \in UNION {[1..n -> Fields] : n \in 1..MaxFields}}

\* OpenEMSTimeProperty as constructed; fed is the raw value of the latest
\* update, raised whether that update raised, n whether there was one.
TimeInit ==
  [current_value |-> NoneV, fed |-> NoneV, raised |-> FALSE, n |-> 0,
   written |-> NoneV, sent |-> NoneV]

\* The times of day the user sets.
TimeHours == {0, 9, 10, 23}
TimeMinutes == {0, 5, 30, 59}

(* ----------------------------- discovery ------------------------------ *)

\* Component ids of an edge, in the order getEdgeConfig lists them.
CompOrder == <<"_host", "evcs0", "meter0", "ctrl0">>
Comps == {CompOrder[i] : i \in 1..Len(CompOrder)}

\* list(components): the listed ids in dict order.
RECURSIVE ListOf(_, _)
ListOf(order, S) ==
  IF order = <<>> THEN <<>>
  ELSE IF Head(order) \in S THEN <<Head(order)>> \o ListOf(Tail(order), S)
       ELSE ListOf(Tail(order), S)

\* No discovery running.  components maps an id to "absent" (no key),
\* "listed" (a key without "channels") or "channels"; listed and failed
\* record what getEdgeConfig listed and which channel fetches failed.
DiscIdle ==
  [pc |-> "idle", todo |-> <<>>, components |-> [c \in Comps |-> "absent"],
   listed |-> {}, failed |-> {}, merged |-> {}, cause |-> "none"]

(* ------------------------- the channel registry ------------------------ *)

\* A dict name -> set of handlers: the keys in insertion order, and the set
\* each key maps to (empty for a name that is no key).
EmptyRegistry == [keys |-> <<>>, sets |-> [n \in Names |-> {}]]

SeqRange(s) == {s[i] : i \in 1..Len(s)}

HasKey(reg, n) == n \in SeqRange(reg.keys)

\* dict.get(name): the handlers of a key, nothing for a missing key.
RegGet(reg, n) == IF HasKey(reg, n) THEN reg.sets[n] ELSE {}

\* OpenEMSEdge.register_channel; `names` lists the set channel_names in the
\* order the loop visits it.
RECURSIVE register_channel(_, _, _)
register_channel(reg, names, handler) ==
  IF names = <<>> THEN reg
  ELSE LET n == Head(names)
           r == IF ~HasKey(reg, n)
                THEN [keys |-> Append(reg.keys, n),
                      sets |-> [reg.sets EXCEPT ![n] = {handler}]]
                ELSE [keys |-> reg.keys,
                      sets |-> [reg.sets EXCEPT ![n] = @ \cup {handler}]]
       IN register_channel(r, Tail(names), handler)

\* unregister_channel without `del self._registered_channels[channel_name]`.
unregister_channel_keeps_key(reg, handler) ==
  [keys |-> reg.keys,
   sets |-> [n \in Names |-> reg.sets[n] \ {handler}]]

\* OpenEMSEdge.unregister_channel
unregister_channel(reg, handler) ==
  LET Emptied(n) == handler \in reg.sets[n] /\ reg.sets[n] \ {handler} = {}
      Kept(n) == ~Emptied(n)
  IN [keys |-> SelectSeq(reg.keys, Kept),
      sets |-> [n \in Names |->
                  IF HasKey(reg, n) THEN reg.sets[n] \ {handler}
                  ELSE reg.sets[n]]]

\* register_callback of the base class used for a number property too.
ChannelNamesOwnOnly(h) == IF h = "P" THEN {N_P} ELSE {N_S}

\* The names a channel registers under (register_callback): a sensor its own
\* name, a number property its own name and every reference channel.
ChannelNames(h) == IF h = "P" THEN {N_S, N_P} ELSE {N_S}

\* The orders in which a loop may visit a set of names.
Orders(S) ==
  {s \in UNION {[1..k -> S] : k \in {Cardinality(S)}} : SeqRange(s) = S}

(* --------------------------- number property --------------------------- *)

\* float(Template.render(...)) of the multiplier expression "{{evcs1/Phases}}":
\* the reference value when it is a number; None renders as "None", which
\* float() rejects, and the except clause yields 1.0.
RenderMultiplier(ref) == IF IsInt(ref) THEN ref.v ELSE 1

\* ceil(a / b) for b > 0
CeilDiv(a, b) == -((-a) \div b)

\* a step of ten whatever the range
StepTen(p, range) == 10 * p

\* 10 ** ceil(log10(max(1, range / STEPS))): the least power of ten p >= 1
\* with p * STEPS >= range.
RECURSIVE StepFor(_, _)
StepFor(p, range) ==
  IF p * STEPS >= range THEN p ELSE StepFor(p * 10, range)

\* The else branch of _update_config: multiplier, limits and step from the
\* rendered multiplier m and the rendered limits.
derive_config(m, lower_noscale, upper_raw) ==
  LET upper_noscale == IF upper_raw < lower_noscale + 10
                       THEN lower_noscale + 10 ELSE upper_raw
      lower_scaled == lower_noscale * m
      upper_scaled == upper_noscale * m
      st == StepFor(1, upper_scaled - lower_scaled)
  IN  [multiplier |-> m,
       lower_limit |-> CeilDiv(lower_scaled, st) * st,
       upper_limit |-> CeilDiv(upper_scaled, st) * st,
       step |-> st]

\* OpenEMSNumberProperty._update_config: the new config and whether it changed.
update_config(num) ==
  LET new == [ref |-> num.ref]
               @@ derive_config(RenderMultiplier(num.ref), LowerDef, UpperDef)
  IN [num |-> new, changed |-> new # num]

\* OpenEMSNumberProperty.__init__
NumberNew ==
  [ref |-> NoneV, multiplier |-> 1, lower_limit |-> 0,
   upper_limit |-> 100000, step |-> 1]

\* Constant multiplier and limit expressions of the catalog.
MultiplierDefs == {1, 2, 3}
LimitDefs == [lower : {0, 1, 50}, upper : {5, 100, 1000, 100000}]

\* The property after __init__, set_multiplier_def and set_limit_def.
NumberInit ==
  update_config([ref |-> NoneV, multiplier |-> 1, lower_limit |-> LowerDef,
                 upper_limit |-> UpperDef, step |-> 1]).num

(* -------------------------- inbound dispatch --------------------------- *)

\* OpenEMSChannel.handle_data_update with handle_current_value, for a channel
\* without ENUM options: an integer is kept, anything else becomes None.
SensorValue(x) == IF IsInt(x) THEN x ELSE NoneV

\* OpenEMSNumberProperty.handle_data_update: a reference channel's value
\* re-evaluates the config and leaves the current value alone; any other
\* name delivers the property's own value, scaled by the multiplier.
number_handle_data_update(ch, name, x) ==
  IF name = N_S
  THEN IF ch.num.ref # x
       THEN [ch EXCEPT !.num = update_config([ch.num EXCEPT !.ref = x]).num]
       ELSE ch
  ELSE [ch EXCEPT !.cur["P"] =
          IF IsInt(x) THEN IntV(ch.num.multiplier * x.v) ELSE NoneV]

\* channel.handle_data_update(name, x) on channel h; ch = [cur, num].
handle_data_update(ch, h, name, x) ==
  IF h = "P" THEN number_handle_data_update(ch, name, x)
  ELSE [ch EXCEPT !.cur[h] = SensorValue(x)]

Call(h, n, x) == [h |-> h, name |-> n, value |-> x]

\* for channel in handlers: channel.handle_data_update(name, x), recording
\* every call made.  acc = [ch, calls, result].
DeliverS(acc, hs, name, x) ==
  IF "S" \in hs
  THEN [acc EXCEPT !.ch = handle_data_update(acc.ch, "S", name, x),
                   !.calls = Append(acc.calls, Call("S", name, x))]
  ELSE acc

Deliver(acc, hs, name, x) ==
  LET a == DeliverS(acc, hs, name, x)
  IN IF "P" \in hs
     THEN [a EXCEPT !.ch = handle_data_update(a.ch, "P", name, x),
                    !.calls = Append(a.calls, Call("P", name, x))]
     ELSE a

\* currentData indexing the registry instead of using dict.get.
RECURSIVE dispatch_indexing(_, _, _)
dispatch_indexing(acc, reg, params) ==
  IF params = <<>> THEN acc
  ELSE LET e == Head(params)
       IN IF ~HasKey(reg, e.name)
          THEN [acc EXCEPT !.result = "KeyError"]
          ELSE dispatch_indexing(Deliver(acc, reg.sets[e.name], e.name, e.value),
                                 reg, Tail(params))

\* The loop of OpenEMSEdge.currentData over the snapshot.
RECURSIVE dispatch(_, _, _)
dispatch(acc, reg, params) ==
  IF params = <<>> THEN acc
  ELSE LET e == Head(params)
           hs == RegGet(reg, e.name)
       IN IF hs = {}
          THEN dispatch(acc, reg, Tail(params))
          ELSE dispatch(Deliver(acc, hs, e.name, e.value), reg, Tail(params))

\* The loop of OpenEMSEdge.set_unavailable over current_channel_data:
\* self._registered_channels[channel_name] raises KeyError for a name that
\* is no key of the registry, which ends the loop.
RECURSIVE mark_unavailable(_, _, _)
mark_unavailable(acc, reg, data) ==
  IF data = <<>> THEN acc
  ELSE LET n == Head(data).name
       IN IF ~HasKey(reg, n)
          THEN [acc EXCEPT !.result = "KeyError"]
          ELSE mark_unavailable(Deliver(acc, reg.sets[n], n, NoneV),
                                reg, Tail(data))

Acc0 == [ch |-> [cur |-> current_value, num |-> number],
         calls |-> <<>>, result |-> "ok"]

Op(op, arg, calls, result) ==
  [op |-> op, arg |-> arg, calls |-> calls, result |-> result]

(* ------------------------------- Init ---------------------------------- *)

\* OpenEMSBackend.__init__, with rpc_server_task as given.
BackendInit(task) ==
  [rpc_server_task |-> task, reconnect_task |-> FALSE,
   pc |-> "unstarted", stop |-> "idle", stops |-> 0,
   called |-> FALSE, marked |-> FALSE]

\* async_setup_entry has returned True.
SetupDone == [pc |-> "done", aux |-> "none", aux_open |-> FALSE,
              cause |-> "none"]

\* No classification run; an enum and a time property as constructed.
InitProps ==
  /\ classify = ClassifyIdle
  /\ enum_property = EnumInit(<<>>)
  /\ time_property = TimeInit

\* OpenEMSEdge.__init__, whose constructor creates the updater's task; num
\* is the number property that init_channels builds.
InitEdgeWith(num) ==
  /\ registered_channels = EmptyRegistry
  /\ current_channel_data = <<>>
  /\ callback = [h \in Handlers |-> FALSE]
  /\ current_value = [h \in Handlers |-> NoneV]
  /\ number = num
  /\ write = [pc |-> "idle", num |-> 0, den |-> 1]
  /\ last = Op("init", <<>>, <<>>, "ok")
  /\ updater = [pc |-> "sleep", active_subscriptions |-> <<>>, count |-> 0,
                in_progress |-> <<>>, conn |-> 0, edges |-> FALSE,
                first |-> FALSE, before |-> 0, failed |-> FALSE]
  /\ env = [accepts |-> FALSE]

InitEdge == InitEdgeWith(NumberInit)

\* The state when async_setup_entry has connected, logged in and built the
\* edge, before start().
InitCore ==
  /\ InitEdge
  /\ rpc_server = [connected |-> TRUE, conn |-> 1, authed |-> TRUE,
                   channels_conn |-> 0]
  /\ backend = BackendInit("running")

\* The edge before any notification: the configuration that discovery stored.
InitRpc ==
  /\ component_config = StoredConfig(FALSE, "cfg0")
  /\ rpc = [seq |-> 0, edgeId |-> OwnedEdge, method |-> "none",
            result |-> "none", before |-> StoredConfig(FALSE, "cfg0")]

Init ==
  /\ InitCore
  /\ InitRpc
  /\ group = GroupInit(NoRule)
  /\ disc = DiscIdle
  /\ setup = SetupDone
  /\ InitProps

(* --------------------------- edge operations --------------------------- *)

\* OpenEMSChannel.register_callback / OpenEMSNumberProperty.register_callback
RegisterCallback(h) ==
  /\ \E order \in Orders(ChannelNames(h)) :
       registered_channels' = register_channel(registered_channels, order, h)
  /\ callback' = [callback EXCEPT ![h] = TRUE]
  /\ last' = Op("register_callback", <<>>, <<>>, "ok")
  /\ UNCHANGED <<current_channel_data, current_value, number, write>>
  /\ UNCHANGED connVars
  /\ UNCHANGED auxVars

\* OpenEMSChannel.unregister_callback
UnregisterCallback(h) ==
  /\ registered_channels' = unregister_channel(registered_channels, h)
  /\ callback' = [callback EXCEPT ![h] = FALSE]
  /\ last' = Op("unregister_callback", <<>>, <<>>, "ok")
  /\ UNCHANGED <<current_channel_data, current_value, number, write>>
  /\ UNCHANGED connVars
  /\ UNCHANGED auxVars

\* OpenEMSEdge.currentData
currentData(params) ==
  LET r == dispatch(Acc0, registered_channels, params)
  IN /\ current_channel_data' = params
     /\ current_value' = r.ch.cur
     /\ number' = r.ch.num
     /\ last' = Op("currentData", params, r.calls, r.result)
     /\ UNCHANGED <<registered_channels, callback, write>>
     /\ UNCHANGED connVars

\* currentData called on the edge.
CurrentData(params) ==
  /\ currentData(params)
  /\ UNCHANGED auxVars

\* clear() that leaves the list as it is.
clear_keeps(u) == u

\* OpenEmsEdgeChannelSubscriptionUpdater.clear
clear(u) == [u EXCEPT !.active_subscriptions = <<>>]

\* OpenEMSEdge.set_unavailable; the updater's clear() is reached only when
\* the loop completes.
set_unavailable ==
  LET r == mark_unavailable(Acc0, registered_channels, current_channel_data)
  IN /\ current_value' = r.ch.cur
     /\ number' = r.ch.num
     /\ updater' = IF r.result = "ok" THEN clear(updater) ELSE updater
     /\ last' = Op("set_unavailable", <<>>, r.calls, r.result)

\* set_unavailable called on the edge directly.
SetUnavailable ==
  /\ set_unavailable
  /\ UNCHANGED <<registered_channels, current_channel_data, callback, write,
                 rpc_server, backend, env>>
  /\ UNCHANGED auxVars

(* ------------------------ inbound edgeRpc ------------------------------ *)

\* The params of a notification: the channel snapshot a currentData carries
\* and the "components" entry an edgeConfig carries.
Params == [data : {<<Entry(N_S, x)>> : x \in RawValues}, components : Configs]

Notified(e, m, result) ==
  [seq |-> 1 - rpc.seq, edgeId |-> e, method |-> m, result |-> result,
   before |-> component_config]

\* "Received response for undefined edge" / "Unhandled callback method".
drop(e, m) ==
  /\ rpc' = Notified(e, m, "dropped")
  /\ UNCHANGED component_config
  /\ UNCHANGED edgeVars
  /\ UNCHANGED connVars

\* What no notification touches.
RpcFrame == UNCHANGED <<group, disc, setup, propVars>>

\* method = getattr(self.the_edge, method_name); method(params)
edge_dispatch(e, m, p) ==
  CASE m = "currentData" ->
         /\ currentData(p.data)
         /\ rpc' = Notified(e, m, "called")
         /\ UNCHANGED component_config
    [] m = "edgeConfig" ->
         /\ component_config' = StoredConfig(FALSE, p.components)
         /\ rpc' = Notified(e, m, "called")
         /\ UNCHANGED edgeVars
         /\ UNCHANGED connVars
    [] m = "set_component_config" ->
         /\ component_config' = StoredConfig(TRUE, p.components)
         /\ rpc' = Notified(e, m, "called")
         /\ UNCHANGED edgeVars
         /\ UNCHANGED connVars
    [] m \in {"set_unavailable", "stop", "hostname"} ->
         \* a method without parameters called with one, or a str called
         /\ rpc' = Notified(e, m, "TypeError")
         /\ UNCHANGED component_config
         /\ UNCHANGED edgeVars
         /\ UNCHANGED connVars
    [] OTHER -> drop(e, m)

\* edgeRpc dispatching whatever edge id the notification names.
edgeRpc_any_edge(e, m, p) == edge_dispatch(e, m, p)

\* OpenEMSBackend.edgeRpc
edgeRpc(e, m, p) ==
  IF e # OwnedEdge THEN drop(e, m) ELSE edge_dispatch(e, m, p)

EdgeRpc(e, m, p) ==
  /\ edgeRpc(e, m, p)
  /\ RpcFrame

(* ------------------------- update-group writes ------------------------- *)

\* The sibling's entry named by slicing the written channel's own name.
group_entry_own_name(x, sibling, values) ==
  [name |-> ConfigName(x), value |-> values[sibling]]

\* (channel.name[9].lower() + channel.name[10:], channel.current_value)
group_entry(x, sibling, values) ==
  [name |-> ConfigName(sibling), value |-> values[sibling]]

\* The list OpenEMSProperty.update_value hands to component.update_config.
group_properties(x, new_value, rule, values) ==
  <<[name |-> ConfigName(x), value |-> new_value]>>
    \o (IF rule.when = NoneV \/ rule.when = new_value
        THEN [i \in 1..Len(rule.requires) |->
                group_entry(x, rule.requires[i], values)]
        ELSE <<>>)

\* OpenEMSProperty.update_value(new_value) on PropX, up to the RPC that
\* OpenEMSComponent.update_config sends when the transport is connected.
GroupWrite(new_value) ==
  /\ group' = [group EXCEPT
       !.new_value = new_value,
       !.at = group.values,
       !.sent = IF rpc_server.connected
                THEN <<group_properties(PropX, new_value, group.rule,
                                        group.values)>>
                ELSE <<>>,
       !.result = IF rpc_server.connected THEN "sent" ELSE "skipped"]
  /\ UNCHANGED <<component_config, rpc, disc, setup, propVars>>
  /\ UNCHANGED edgeVars
  /\ UNCHANGED connVars

\* handle_current_value on a property of the component.
GroupData(n, x) ==
  /\ group.values[n] # x
  /\ group' = [group EXCEPT !.values[n] = x]
  /\ UNCHANGED <<component_config, rpc, disc, setup, propVars>>
  /\ UNCHANGED edgeVars
  /\ UNCHANGED connVars

(* ------------------------- schema discovery ---------------------------- *)

DiscFrame ==
  /\ UNCHANGED <<component_config, rpc, group, setup, propVars>>
  /\ UNCHANGED edgeVars
  /\ UNCHANGED connVars

\* read_components: getEdgeConfig answers with the components S.
ReadComponents(S) ==
  /\ disc.pc = "idle"
  /\ disc' = [DiscIdle EXCEPT
       !.pc = IF S = {} THEN "info" ELSE "fetch",
       !.todo = ListOf(CompOrder, S), !.listed = S,
       !.components = [c \in Comps |-> IF c \in S THEN "listed" ELSE "absent"]]
  /\ DiscFrame

\* getEdgeConfig fails: read_components raises.
ReadComponentsFail ==
  /\ disc.pc = "idle"
  /\ disc' = [DiscIdle EXCEPT !.pc = "raised", !.cause = "getEdgeConfig"]
  /\ DiscFrame

\* The loop of _read_edge_channels moves to the next id of list(components).
next_component(d) ==
  [d EXCEPT !.todo = Tail(d.todo),
            !.pc = IF Tail(d.todo) = <<>> THEN "info" ELSE "fetch"]

\* A failed fetch that leaves the component in the result without channels.
fetch_failed_keeps(d) ==
  next_component([d EXCEPT !.failed = @ \cup {Head(d.todo)}])

\* except (TransportError, ProtocolError): del components[componentId]
fetch_failed(d) ==
  next_component([d EXCEPT !.components[Head(d.todo)] = "absent",
                           !.failed = @ \cup {Head(d.todo)}])

\* components[componentId]["channels"] = r["payload"]["result"]["channels"]
fetch_done(d) ==
  next_component([d EXCEPT !.components[Head(d.todo)] = "channels"])

FetchOk ==
  /\ disc.pc = "fetch"
  /\ disc' = fetch_done(disc)
  /\ DiscFrame

FetchFail ==
  /\ disc.pc = "fetch"
  /\ disc' = fetch_failed(disc)
  /\ DiscFrame

\* _read_component_info_channels: the bulk read returns values for the
\* components D; each is merged into its component if that is still a key.
info_done(d, D) ==
  [d EXCEPT !.pc = "done",
            !.merged = {c \in D : d.components[c] # "absent"}]

info_failed(d) == [d EXCEPT !.pc = "raised", !.cause = "info"]

InfoOk(D) ==
  /\ disc.pc = "info"
  /\ disc' = info_done(disc, D)
  /\ component_config' = StoredConfig(FALSE, "cfg1")
  /\ UNCHANGED <<rpc, group, setup, propVars>>
  /\ UNCHANGED edgeVars
  /\ UNCHANGED connVars

\* The bulk read raises (login or subscribe rejected, no snapshot in 5 s).
InfoFail ==
  /\ disc.pc = "info"
  /\ disc' = info_failed(disc)
  /\ DiscFrame

\* The caller starts over.
DiscReset ==
  /\ disc.pc \in {"done", "raised"}
  /\ disc' = DiscIdle
  /\ DiscFrame

(* ---------------------------- initial setup ---------------------------- *)

\* async_setup_entry has built the backend and is about to connect.
SetupStart == [pc |-> "connect", aux |-> "none", aux_open |-> FALSE,
               cause |-> "none"]

SetupFrame ==
  /\ UNCHANGED <<rpc, group, propVars>>
  /\ UNCHANGED edgeVars
  /\ UNCHANGED <<updater, env>>

\* connect_to_server returns within the timeout: the session's task runs.
SetupConnectOk ==
  /\ setup.pc = "connect"
  /\ rpc_server' = [rpc_server EXCEPT !.connected = TRUE, !.conn = @ + 1]
  /\ backend' = [backend EXCEPT !.rpc_server_task = "running"]
  /\ setup' = [setup EXCEPT !.pc = "login"]
  /\ UNCHANGED <<component_config, disc>>
  /\ SetupFrame

\* ws_connect raises TransportError or the timeout of 2 s cancels it: no
\* session was established; ConfigEntryNotReady.
SetupConnectFail ==
  /\ setup.pc = "connect"
  /\ setup' = [setup EXCEPT !.pc = "failed", !.cause = "connect"]
  /\ UNCHANGED <<component_config, disc, rpc_server, backend>>
  /\ SetupFrame

\* login_to_server returns.
SetupLoginOk ==
  /\ setup.pc = "login"
  /\ rpc_server.connected
  /\ rpc_server' = [rpc_server EXCEPT !.authed = TRUE]
  /\ setup' = [setup EXCEPT !.pc = "components"]
  /\ UNCHANGED <<component_config, disc, backend>>
  /\ SetupFrame

\* authenticateWithPassword raises ProtocolError: ConfigEntryAuthFailed is
\* raised; nothing else runs.
SetupLoginFail ==
  /\ setup.pc = "login"
  /\ setup' = [setup EXCEPT !.pc = "failed", !.cause = "authenticate"]
  /\ UNCHANGED <<component_config, disc, rpc_server, backend>>
  /\ SetupFrame

\* else: backend.set_component_config(edge_id, data_copy["components"])
SetupStoredComponents ==
  /\ setup.pc = "components"
  /\ disc.pc = "idle"
  /\ component_config' = StoredConfig(FALSE, "cfg0")
  /\ setup' = [setup EXCEPT !.pc = "prepare"]
  /\ UNCHANGED <<disc, rpc_server, backend>>
  /\ SetupFrame

\* components = await backend.read_edge_components(edge_id) starts.
SetupReadComponents(S) ==
  /\ setup.pc = "components"
  /\ ReadComponents(S)

SetupReadComponentsFail ==
  /\ setup.pc = "components"
  /\ ReadComponentsFail

\* get_channel_values_via_websocket: ws_connect of the new Server returns.
AuxConnectOk ==
  /\ disc.pc = "info"
  /\ setup.pc = "components"
  /\ setup.aux = "none"
  /\ setup' = [setup EXCEPT !.aux = "login", !.aux_open = TRUE]
  /\ UNCHANGED <<component_config, disc, rpc_server, backend>>
  /\ SetupFrame

\* the call the auxiliary session is waiting for raises
aux_raise(su, d) ==
  /\ su' = [su EXCEPT !.aux = "raised"]
  /\ d' = info_failed(d)

\* ws_connect raises TransportError: no session was established.
AuxConnectFail ==
  /\ disc.pc = "info"
  /\ setup.pc = "components"
  /\ setup.aux = "none"
  /\ aux_raise(setup, disc)
  /\ UNCHANGED <<component_config, rpc_server, backend>>
  /\ SetupFrame

AuxLoginOk ==
  /\ setup.aux = "login"
  /\ setup' = [setup EXCEPT !.aux = "subscribeEdges"]
  /\ UNCHANGED <<component_config, disc, rpc_server, backend>>
  /\ SetupFrame

\* authenticateWithPassword raises ProtocolError.
AuxLoginFail ==
  /\ setup.aux = "login"
  /\ aux_raise(setup, disc)
  /\ UNCHANGED <<component_config, rpc_server, backend>>
  /\ SetupFrame

\* subscribeEdges, then the subscribeChannels edgeRpc, return.
AuxSubscribeOk ==
  /\ setup.aux \in {"subscribeEdges", "subscribeChannels"}
  /\ setup' = [setup EXCEPT !.aux =
       IF @ = "subscribeEdges" THEN "subscribeChannels" ELSE "wait"]
  /\ UNCHANGED <<component_config, disc, rpc_server, backend>>
  /\ SetupFrame

\* subscribeEdges or subscribeChannels raises ProtocolError.
AuxSubscribeFail ==
  /\ setup.aux \in {"subscribeEdges", "subscribeChannels"}
  /\ aux_raise(setup, disc)
  /\ UNCHANGED <<component_config, rpc_server, backend>>
  /\ SetupFrame

\* The currentData snapshot arrives: await rpc_server.close(); the values are
\* merged and read_components stores the result.
AuxData(D) ==
  /\ setup.aux = "wait"
  /\ setup' = [setup EXCEPT !.aux = "closed", !.aux_open = FALSE]
  /\ disc' = info_done(disc, D)
  /\ component_config' = StoredConfig(FALSE, "cfg1")
  /\ UNCHANGED <<rpc_server, backend>>
  /\ SetupFrame

\* wait_for(data_received.wait(), timeout=5) raises TimeoutError.
AuxTimeout ==
  /\ setup.aux = "wait"
  /\ aux_raise(setup, disc)
  /\ UNCHANGED <<component_config, rpc_server, backend>>
  /\ SetupFrame

\* read_edge_components returned the components.
SetupDiscovered ==
  /\ setup.pc = "components"
  /\ disc.pc = "done"
  /\ setup' = [setup EXCEPT !.pc = "prepare"]
  /\ UNCHANGED <<component_config, disc, rpc_server, backend>>
  /\ SetupFrame

\* read_edge_components raised: the exception leaves async_setup_entry.
SetupDiscoveryFail ==
  /\ setup.pc = "components"
  /\ disc.pc = "raised"
  /\ setup' = [setup EXCEPT !.pc = "failed",
       !.cause = IF disc.cause = "info" THEN "auxiliary" ELSE "discovery"]
  /\ UNCHANGED <<component_config, disc, rpc_server, backend>>
  /\ SetupFrame

\* prepare_entities, the platforms and backend.start(): return True
SetupFinish ==
  /\ setup.pc = "prepare"
  /\ setup' = [setup EXCEPT !.pc = "done"]
  /\ UNCHANGED <<component_config, disc, rpc_server, backend>>
  /\ SetupFrame

(* --------------------- number property, constants ---------------------- *)

NumberFrame ==
  /\ UNCHANGED <<registered_channels, current_channel_data, callback,
                 current_value, write>>
  /\ UNCHANGED connVars
  /\ UNCHANGED auxVars

\* OpenEMSNumberProperty(component, channel_json)
NumberConstruct ==
  /\ number' = NumberNew
  /\ last' = Op("construct", <<>>, <<>>, "ok")
  /\ NumberFrame

Constructed == last.op \in {"construct", "set_multiplier_def", "set_limit_def"}

\* set_multiplier_def on an expression without references: the multiplier
\* is float(render()) at once.
SetMultiplierDef(m) ==
  /\ Constructed
  /\ number' = [number EXCEPT !.multiplier = m]
  /\ last' = Op("set_multiplier_def", <<m>>, <<>>, "ok")
  /\ NumberFrame

\* set_limit_def on expressions without references: both limits are
\* rendered at once and _update_config derives the config.
SetLimitDef(def) ==
  /\ Constructed
  /\ number' = [ref |-> number.ref]
                 @@ derive_config(number.multiplier, def.lower, def.upper)
  /\ last' = Op("set_limit_def", <<number.multiplier, def.lower, def.upper>>,
                <<>>, "ok")
  /\ NumberFrame

(* -------------------- number property, references --------------------- *)

\* What the device reports for the referenced channel: null, a string that
\* is no number, and integers (negative, zero, small, large).
RefValues ==
  {NoneV, StrV(<<"a">>), IntV(-1), IntV(0), IntV(2), IntV(30)}

\* An expression of the catalog: a number, or the placeholder
\* {{evcs1/Phases}} alone.
NumExpr(c) == [ref |-> FALSE, c |-> c]
RefExpr == [ref |-> TRUE, c |-> 0]

MultiplierExprs == {NumExpr(2), RefExpr}
LowerExprs == {NumExpr(1), NumExpr(50), RefExpr}
UpperExprs == {NumExpr(5), NumExpr(100), RefExpr}

\* A rendering that takes an unset or non-numeric reference as 0.
Render_unset_as_zero(expr, ref) ==
  IF ~expr.ref THEN IntV(expr.c)
  ELSE IF IsInt(ref) THEN ref ELSE IntV(0)

\* float(template.render(self.reference_channels)): the number, or NoneV
\* where float() raises ValueError (None renders as "None").
Render(expr, ref) ==
  IF ~expr.ref THEN IntV(expr.c)
  ELSE IF IsInt(ref) THEN ref ELSE NoneV

\* _update_config that reports a change whatever it computed.
update_config_always_changed(num) ==
  [num |-> num, changed |-> TRUE]

\* OpenEMSNumberProperty._update_config for a property whose expressions
\* are num.mdef, num.ldef and num.udef: the new config and whether it
\* changed.
update_config_refs(num) ==
  LET m0 == Render(num.mdef, num.ref)
      m == IF IsInt(m0) THEN m0.v ELSE 1
      lower_noscale == Render(num.ldef, num.ref)
      upper_noscale == Render(num.udef, num.ref)
      cfg == IF IsNone(upper_noscale) \/ IsNone(lower_noscale)
             THEN [multiplier |-> m, lower_limit |-> 0,
                   upper_limit |-> 100000, step |-> num.step]
             ELSE derive_config(m, lower_noscale.v, upper_noscale.v)
      new == [num EXCEPT !.multiplier = cfg.multiplier,
                         !.lower_limit = cfg.lower_limit,
                         !.upper_limit = cfg.upper_limit,
                         !.step = cfg.step]
  IN [num |-> new, changed |-> new # num]

\* __init__, set_multiplier_def(mdef) and set_limit_def({lower: ldef,
\* upper: udef}) as init_channels calls them: an expression without
\* reference is rendered at once, and _update_config runs when neither
\* limit has one.
RefNumberInit(mdef, ldef, udef) ==
  LET num == [ref |-> NoneV, mdef |-> mdef, ldef |-> ldef, udef |-> udef,
              multiplier |-> IF mdef.ref THEN 1 ELSE mdef.c,
              lower_limit |-> IF ldef.ref THEN 0 ELSE ldef.c,
              upper_limit |-> IF udef.ref THEN 100000 ELSE udef.c,
              step |-> 1]
  IN IF ldef.ref \/ udef.ref THEN num ELSE update_config_refs(num).num

RefFrame ==
  /\ UNCHANGED <<registered_channels, current_channel_data, callback, write>>
  /\ UNCHANGED connVars
  /\ UNCHANGED auxVars

\* handle_data_update(name, x) for the referenced channel: a new value is
\* stored, _update_config runs, and notify_ha() is called when it returns
\* True.  last.arg keeps the property as it was.
RefData(x) ==
  /\ IF number.ref # x
     THEN LET r == update_config_refs([number EXCEPT !.ref = x])
          IN /\ number' = r.num
             /\ last' = Op("reference_update", <<number>>, <<>>,
                            IF r.changed THEN "notify_ha" ELSE "ok")
     ELSE /\ number' = number
          /\ last' = Op("reference_update", <<number>>, <<>>, "same")
  /\ UNCHANGED current_value
  /\ RefFrame

\* handle_data_update(name, x) for the property's own channel.
OwnData(x) ==
  /\ current_value' = [current_value EXCEPT !["P"] =
        IF IsInt(x) THEN IntV(number.multiplier * x.v) ELSE NoneV]
  /\ last' = Op("own_update", <<x>>, <<>>, "ok")
  /\ UNCHANGED number
  /\ RefFrame

(* ---------------------------- enum property ---------------------------- *)

\* OpenEMSEnumProperty.handle_data_update: the value handle_current_value
\* is called with.
enum_value(e, value) ==
  IF IsNone(value) THEN NoneV
  ELSE IF IsStr(value)
       THEN LET v == Normalise(value.s)
            IN  IF v \in DOMAIN e.options THEN StrV(v) ELSE NoneV
       ELSE value

\* OpenEMSEnumProperty.current_option
current_option(e) ==
  IF IsStr(e.current_value) THEN e.current_value ELSE NoneV

EnumData(value) ==
  /\ enum_property' = [enum_property EXCEPT
       !.current_value = enum_value(enum_property, value),
       !.fed = value, !.n = 1]
  /\ UNCHANGED <<component_config, rpc, group, disc, setup>>
  /\ UNCHANGED <<classify, time_property>>
  /\ UNCHANGED edgeVars
  /\ UNCHANGED connVars

(* ---------------------------- time property ---------------------------- *)

\* time(int(hour_str), int(minute_str)) of two fields: both int() calls,
\* then the constructor, which raises OverflowError for an argument beyond a
\* C int and ValueError for one out of range.
time_of(hour_str, minute_str) ==
  IF ~hour_str.numeric \/ ~minute_str.numeric THEN "ValueError"
  ELSE IF hour_str.wide \/ minute_str.wide THEN "OverflowError"
  ELSE IF hour_str.n \notin 0..23 \/ minute_str.n \notin 0..59
       THEN "ValueError"
  ELSE "ok"

\* The try block of OpenEMSTimeProperty.handle_data_update on a string.
time_parse(fields) ==
  IF Len(fields) # 2 THEN "ValueError"          \* unpacking split(":")
  ELSE time_of(fields[1], fields[2])

\* OpenEMSTimeProperty.handle_data_update: except ValueError gives None,
\* any other exception leaves the handler before handle_current_value.
time_handle_data_update(tp, value) ==
  IF ~IsStr(value) THEN [tp EXCEPT !.current_value = NoneV, !.raised = FALSE]
  ELSE LET r == time_parse(value.fields)
       IN  CASE r = "ok" ->
                  [tp EXCEPT !.current_value =
                               TimeV(value.fields[1].n, value.fields[2].n),
                             !.raised = FALSE]
             [] r = "ValueError" ->
                  [tp EXCEPT !.current_value = NoneV, !.raised = FALSE]
             [] OTHER -> [tp EXCEPT !.raised = TRUE]

\* OpenEMSTimeProperty.native_value
native_value(tp) ==
  IF tp.current_value.t = "time" THEN tp.current_value ELSE NoneV

TimeData(value) ==
  /\ time_property' = [time_handle_data_update(time_property, value) EXCEPT
       !.fed = value, !.n = 1]
  /\ UNCHANGED <<component_config, rpc, group, disc, setup>>
  /\ UNCHANGED <<classify, enum_property>>
  /\ UNCHANGED edgeVars
  /\ UNCHANGED connVars

\* "%H" or "%M" of strftime: two decimal digits, zero-padded
Pad2(n) == <<n \div 10, n % 10>>

\* int() of a string of two decimal digits
IntOf(ds) == 10 * ds[1] + ds[2]

\* value.strftime("%M:%H"): the fields the wrong way round
strftime_minute_first(t) == [t |-> "str", v |-> 0, hh |-> Pad2(t.m), mm |-> Pad2(t.h)]

\* value.strftime("%H:%M"): the digits before and after the colon
strftime(t) == [t |-> "str", v |-> 0, hh |-> Pad2(t.h), mm |-> Pad2(t.m)]

\* OpenEMSTimeProperty.async_set_value: the string is handed to
\* update_value as the property's new value.
TimeWrite(t) ==
  /\ rpc_server.connected
  /\ time_property' = [time_property EXCEPT !.written = t,
                                            !.sent = strftime(t)]
  /\ UNCHANGED <<component_config, rpc, group, disc, setup>>
  /\ UNCHANGED <<classify, enum_property>>
  /\ UNCHANGED edgeVars
  /\ UNCHANGED connVars

\* The device reports the value it was sent: currentData delivers the
\* string, whose fields split(":") and int() read as numbers.
TimeEcho ==
  /\ IsStr(time_property.sent)
  /\ TimeData(TimeStr(<<Num(IntOf(time_property.sent.hh)),
                        Num(IntOf(time_property.sent.mm))>>))

(* ------------------------- update-group siblings ----------------------- *)

\* A JSON boolean.
BoolV(b) == [t |-> "bool", v |-> IF b THEN 1 ELSE 0]

\* The sibling PropA of the written property, by its class.
SiblingKinds ==
  {[kind |-> "number", multiplier |-> m, options |-> <<>>] :
     m \in MultiplierDefs}
    \cup {[kind |-> k, multiplier |-> 1, options |-> <<>>] :
            k \in {"boolean", "time"}}
    \cup {[kind |-> "enum", multiplier |-> 1, options |-> <<o>>] :
            o \in Strings}

\* What the device reports for a sibling of that class.
SiblingRaw(sib) ==
  CASE sib.kind = "time" ->
         RawValues \cup {TimeStr(fs) : fs \in [1..2 -> Fields]}
    [] sib.kind = "enum" -> EnumRaw
    [] OTHER -> RawValues

\* handle_data_update of the sibling's class: the current value after the
\* device's value x arrived, old the one before.
sibling_value(sib, old, x) ==
  CASE sib.kind = "number" ->
         IF IsInt(x) THEN IntV(sib.multiplier * x.v) ELSE NoneV
    [] sib.kind = "boolean" ->
         IF IsInt(x) THEN BoolV(x.v # 0) ELSE NoneV
    [] sib.kind = "time" ->
         time_handle_data_update(
           [TimeInit EXCEPT !.current_value = old], x).current_value
    [] sib.kind = "enum" -> enum_value(EnumInit(sib.options), x)

\* currentData delivers x for the sibling; fed is the value delivered.
SiblingData ==
  /\ \E x \in SiblingRaw(group.sibling) :
       group' = [group EXCEPT
         !.values[PropA] = sibling_value(group.sibling, @, x), !.fed = x]
  /\ UNCHANGED <<component_config, rpc, disc, setup, propVars>>
  /\ UNCHANGED edgeVars
  /\ UNCHANGED connVars

(* ----------------------- channel classification ----------------------- *)

ClassifyFrame ==
  /\ UNCHANGED <<component_config, rpc, group, disc, setup>>
  /\ UNCHANGED <<enum_property, time_property>>
  /\ UNCHANGED edgeVars
  /\ UNCHANGED connVars

\* OpenEMSNumberProperty.set_limit_def on an expression of the given shape,
\* with _prepare_ref_value inside it: "ok" or the exception raised.
set_limit_def(expr, json_properties) ==
  CASE expr = "nonstring" -> "TypeError"            \* re.sub on a non-string
    [] expr = "noslash"   -> "ValueError"           \* unpacking split("/")
    [] expr = "indirect"  ->
         IF RefProperty \in json_properties THEN "ok" ELSE "KeyError"
    [] expr = "malformed" -> "TemplateSyntaxError"  \* Template(value_expr)
    [] expr = "word"      -> "ValueError"           \* float("")
    [] OTHER              -> "ok"

\* except (TypeError, TransportError, ProtocolError, ValueError)
Caught == {"TypeError", "TransportError", "ProtocolError", "ValueError"}

\* One iteration of init_channels: the channel is appended to a collection,
\* or dropped with a warning, or its exception leaves the loop.
init_channel(ch, json_properties) ==
  IF ch.type = "sensor" THEN "kept"
  ELSE LET r == set_limit_def(ch.expr, json_properties)
       IN  IF r = "ok" THEN "kept"
           ELSE IF r \in Caught THEN "dropped" ELSE r

\* the Hostname alone, whatever the backend serves
edge_hostname_alone(multi_edge) == <<"h1">>

\* self._component_config["_host"]["Hostname"], " " + self.id appended for
\* a backend with several edges
edge_hostname(multi_edge) ==
  IF multi_edge THEN <<"h1", " ", OwnedEdge>> ELSE <<"h1">>

\* The configuration's entries with a channel list, in dict order.
ConfigComponents(cl) == ListOf(CompOrder, cl.with_channels)

\* The position in ConfigComponents of the component whose list holds
\* channel k: the first components hold one channel each, the last of them
\* holds what remains.
owner(cl, k) ==
  IF k < Cardinality(cl.with_channels) THEN k
  ELSE Cardinality(cl.with_channels)

\* self.components[name] = component follows the component's init_channels:
\* the components stored when channel i is the next one to classify.
stored_components(cl, i) ==
  SubSeq(ConfigComponents(cl), 1,
         IF i > Len(cl.channels) THEN Cardinality(cl.with_channels)
         ELSE owner(cl, i) - 1)

\* unique_id() without the edge id
unique_id_no_edge(cl, k) ==
  cl.hostname \o <<"/", ConfigComponents(cl)[owner(cl, k)], "/", k>>

\* OpenEMSChannel.unique_id of channel k
unique_id(cl, k) ==
  cl.hostname
    \o <<"/", OwnedEdge, "/", ConfigComponents(cl)[owner(cl, k)], "/", k>>

\* OpenEMSEdge.prepare_entities is called on a configuration whose entries
\* S carry channel lists, which hold the channels chs, in order.
PrepareEntities(S, chs, props, multi_edge) ==
  /\ classify.pc = "idle"
  /\ S = {} => chs = <<>>
  /\ LET cl == [ClassifyIdle EXCEPT !.channels = chs,
                                    !.json_properties = props,
                                    !.with_channels = S,
                                    !.multi_edge = multi_edge,
                                    !.hostname = edge_hostname(multi_edge)]
     IN  classify' = [cl EXCEPT
           !.pc = IF chs = <<>> THEN "done" ELSE "run",
           !.components = stored_components(cl, 1)]
  /\ ClassifyFrame

\* the loops of prepare_entities and init_channels, one channel at a time
ClassifyChannel ==
  /\ classify.pc = "run"
  /\ LET i == classify.i
         r == init_channel(classify.channels[i], classify.json_properties)
         pc == IF i = Len(classify.channels) THEN "done" ELSE "run"
     IN  classify' =
           CASE r = "kept" ->
                  [classify EXCEPT !.kept = @ \cup {i}, !.i = i + 1,
                                   !.pc = pc,
                                   !.components =
                                      stored_components(classify, i + 1)]
             [] r = "dropped" ->
                  [classify EXCEPT !.dropped = @ \cup {i}, !.i = i + 1,
                                   !.pc = pc,
                                   !.components =
                                      stored_components(classify, i + 1)]
             [] OTHER ->
                  [classify EXCEPT !.pc = "raised", !.cause = r]
  /\ ClassifyFrame

(* ------------------------ init_channels, by type ----------------------- *)

\* A channel of a component's JSON with what the catalog holds for it:
\* prefix: its id starts with "_Property"; type: its reported type; options:
\* the JSON's "options" entry (absent, or a non-empty dict); enum,
\* time: the catalog has enum options for it, lists it as a time; limit:
\* the catalog's limit pair, by the shape of its expressions, or "none".
PlacedDefs ==
  [prefix : BOOLEAN, type : {"BOOLEAN", "STRING", "INTEGER", "LONG"},
   options : {"absent", "some"}, enum : BOOLEAN, time : BOOLEAN,
   limit : {"none", "number", "indirect"}]

\* One iteration of init_channels: the collection the channel is appended
\* to, "none" when it is appended to no collection, or the exception that
\* leaves the loop.
collection(ch, json_properties) ==
  IF ch.prefix
  THEN CASE ch.type = "BOOLEAN" -> "boolean_properties"
         [] ch.type = "STRING" ->
              IF ch.options = "some" \/ ch.enum THEN "enum_properties"
              ELSE IF ch.time THEN "time_properties" ELSE "none"
         [] ch.type = "INTEGER" ->
              IF ch.limit = "none" THEN "none"
              ELSE LET r == set_limit_def(ch.limit, json_properties)
                   IN  IF r = "ok" THEN "number_properties"
                       ELSE IF r \in Caught THEN "none" ELSE r
         [] OTHER -> "none"
  ELSE IF ch.type = "BOOLEAN" THEN "boolean_sensors" ELSE "sensors"

Collections ==
  {"sensors", "boolean_sensors", "enum_properties", "number_properties",
   "boolean_properties", "time_properties"}

\* The channel lists of a component: one channel or a pair of channels, of
\* any kinds.
PlacedLists == {<<a>> : a \in PlacedDefs} \cup (PlacedDefs \X PlacedDefs)

\* init_channels is called with one or two channels of any kind, on a
\* component without properties.
InitChannels ==
  /\ classify.pc = "idle"
  /\ \E chs \in PlacedLists :
       classify' = [placed |-> <<>>]
                     @@ [ClassifyIdle EXCEPT !.channels = chs, !.pc = "place"]
  /\ ClassifyFrame

\* The loop of init_channels, one channel at a time: placed lists where
\* the channels visited so far went.
PlaceChannel ==
  /\ classify.pc = "place"
  /\ LET i == classify.i
         r == collection(classify.channels[i], classify.json_properties)
     IN  classify' =
           IF r \in Collections \cup {"none"}
           THEN [classify EXCEPT
                   !.placed = Append(@, r), !.i = i + 1,
                   !.pc = IF i = Len(classify.channels) THEN "done"
                          ELSE "place"]
           ELSE [classify EXCEPT !.pc = "raised", !.cause = r]
  /\ ClassifyFrame

(* --------------------------- property writes --------------------------- *)

\* OpenEMSNumberProperty.update_value(d) -> OpenEMSProperty.update_value ->
\* OpenEMSComponent.update_config: d / multiplier raises for a multiplier of
\* 0; without a connection the write is logged and dropped; otherwise the
\* updateComponentConfig call is sent and awaited.
update_value(d) ==
  IF number.multiplier = 0
  THEN /\ write' = write
       /\ last' = Op("update_value", <<>>, <<>>, "ZeroDivisionError")
  ELSE IF ~rpc_server.connected
  THEN /\ write' = write
       /\ last' = Op("update_value", <<>>, <<>>, "skipped")
  ELSE /\ write' = [pc |-> "await", num |-> d, den |-> number.multiplier]
       /\ last' = Op("update_value", <<>>, <<>>, "sent")

UpdateValue(d) ==
  /\ write.pc = "idle"
  /\ update_value(d)
  /\ UNCHANGED <<registered_channels, current_channel_data, callback,
                 current_value, number>>
  /\ UNCHANGED connVars
  /\ UNCHANGED auxVars

\* The device answers the write, or the call fails (TransportError,
\* ProtocolError): update_value returns or raises.
NoWrite == [pc |-> "idle", num |-> 0, den |-> 1]

\* A write that adopts the written value as soon as the device accepts it.
write_done_adopts(result) ==
  /\ write' = NoWrite
  /\ last' = Op("update_value", <<>>, <<>>, result)
  /\ current_value' = IF result = "ok"
                      THEN [current_value EXCEPT !["P"] = IntV(write.num)]
                      ELSE current_value
  /\ UNCHANGED number

write_done(result) ==
  /\ write' = NoWrite
  /\ last' = Op("update_value", <<>>, <<>>, result)
  /\ UNCHANGED <<current_value, number>>

WriteOk ==
  /\ write.pc = "await"
  /\ rpc_server.connected
  /\ write_done("ok")
  /\ UNCHANGED <<registered_channels, current_channel_data, callback>>
  /\ UNCHANGED connVars
  /\ UNCHANGED auxVars

WriteFail ==
  /\ write.pc = "await"
  /\ write_done("error")
  /\ UNCHANGED <<registered_channels, current_channel_data, callback>>
  /\ UNCHANGED connVars
  /\ UNCHANGED auxVars

(* ----------------------------- environment ----------------------------- *)

\* The websocket drops: the session's read loop ends, which closes the
\* client and completes rpc_server_task.
ConnectionLost ==
  /\ rpc_server.connected
  /\ rpc_server.conn < MaxConn
  /\ rpc_server' = [rpc_server EXCEPT !.connected = FALSE, !.authed = FALSE]
  /\ backend' = [backend EXCEPT !.rpc_server_task =
                   IF @ = "running" THEN "done" ELSE @]
  /\ UNCHANGED edgeVars
  /\ UNCHANGED <<updater, env>>
  /\ UNCHANGED auxVars

\* From now on the server accepts every connect and every login.
ServerAccepts ==
  /\ ~env.accepts
  /\ env' = [env EXCEPT !.accepts = TRUE]
  /\ UNCHANGED edgeVars
  /\ UNCHANGED <<rpc_server, backend, updater>>
  /\ UNCHANGED auxVars

(* --------------------------- reconnect task ---------------------------- *)

\* OpenEMSBackend.start
Start ==
  /\ backend.pc = "unstarted"
  /\ backend.stop = "idle" /\ backend.stops = 0
  /\ backend' = [backend EXCEPT !.reconnect_task = TRUE, !.pc = "started"]
  /\ UNCHANGED edgeVars
  /\ UNCHANGED <<rpc_server, updater, env>>
  /\ UNCHANGED auxVars

\* The block after `await self.rpc_server_task` without
\* the_edge.set_unavailable().
connection_lost_silent ==
  /\ backend' = [backend EXCEPT !.rpc_server_task = "none",
                                !.pc = "sleep_lost"]
  /\ UNCHANGED edgeVars
  /\ UNCHANGED <<rpc_server, updater, env>>

\* _reconnect_forever after its task completed: "connection lost",
\* rpc_server_task = None, the_edge.set_unavailable(), sleep(10).  A KeyError
\* raised by set_unavailable is caught nowhere and ends the task.
connection_lost ==
  /\ set_unavailable
  /\ backend' = [backend EXCEPT
       !.rpc_server_task = "none",
       !.called = TRUE, !.marked = TRUE,
       !.pc = IF last'.result = "ok" THEN "sleep_lost" ELSE "crashed"]
  /\ UNCHANGED <<registered_channels, current_channel_data, callback, write,
                 rpc_server, env>>

\* The top of the loop of _reconnect_forever, up to its next await.
reconnect_loop ==
  IF backend.rpc_server_task = "done" THEN connection_lost
  ELSE /\ backend' = [backend EXCEPT !.pc =
            IF backend.rpc_server_task = "running" THEN "await_ws"
            ELSE "connecting"]
       /\ UNCHANGED edgeVars
       /\ UNCHANGED <<rpc_server, updater, env>>

\* The task's first step, and its step when the sleep(10) that follows a
\* failed connect or login ends.
ReconnectLoop ==
  /\ backend.pc \in {"started", "sleep_retry"}
  /\ reconnect_loop
  /\ UNCHANGED auxVars

\* `await self.rpc_server_task` returns (or raises a suppressed error).
ReconnectConnectionLost ==
  /\ backend.pc = "await_ws"
  /\ backend.rpc_server_task = "done"
  /\ connection_lost
  /\ UNCHANGED auxVars

\* The sleep(10) after set_unavailable ends: connect_to_server().
ReconnectConnect ==
  /\ backend.pc = "sleep_lost"
  /\ backend' = [backend EXCEPT !.pc = "connecting"]
  /\ UNCHANGED edgeVars
  /\ UNCHANGED <<rpc_server, updater, env>>
  /\ UNCHANGED auxVars

\* ws_connect succeeds: a new session whose read loop is rpc_server_task;
\* login_to_server finds it connected and sends authenticateWithPassword.
ConnectOk ==
  /\ backend.pc = "connecting"
  /\ rpc_server' = [rpc_server EXCEPT !.connected = TRUE, !.conn = @ + 1,
                                      !.authed = FALSE]
  /\ backend' = [backend EXCEPT !.rpc_server_task = "running", !.pc = "login",
                                !.called = FALSE, !.marked = FALSE]
  /\ UNCHANGED edgeVars
  /\ UNCHANGED <<updater, env>>
  /\ UNCHANGED auxVars

\* ws_connect raises TransportError: sleep(10).
ConnectFail ==
  /\ backend.pc = "connecting"
  /\ ~env.accepts
  /\ backend' = [backend EXCEPT !.pc = "sleep_retry", !.called = FALSE]
  /\ UNCHANGED edgeVars
  /\ UNCHANGED <<rpc_server, updater, env>>
  /\ UNCHANGED auxVars

\* authenticateWithPassword succeeds; the loop starts over and awaits the
\* session's task.
LoginOk ==
  /\ backend.pc = "login"
  /\ rpc_server.connected
  /\ rpc_server' = [rpc_server EXCEPT !.authed = TRUE]
  /\ backend' = [backend EXCEPT !.pc = "await_ws"]
  /\ UNCHANGED edgeVars
  /\ UNCHANGED <<updater, env>>
  /\ UNCHANGED auxVars

\* authenticateWithPassword raises: ProtocolError when the server rejects
\* the login, TransportError when the session dropped meanwhile: sleep(10).
LoginFail ==
  /\ backend.pc = "login"
  /\ ~env.accepts \/ ~rpc_server.connected
  /\ backend' = [backend EXCEPT !.pc = "sleep_retry"]
  /\ UNCHANGED edgeVars
  /\ UNCHANGED <<rpc_server, updater, env>>
  /\ UNCHANGED auxVars

(* ------------------------- subscription updater ------------------------ *)

Idle(u) == [u EXCEPT !.pc = "sleep", !.in_progress = <<>>, !.conn = 0,
                     !.edges = FALSE, !.first = FALSE]

\* Sending subscribeChannels(count, channels) on the current session.
send_channels(u, c, viaEdges) ==
  [u EXCEPT !.pc = "await_channels", !.count = c, !.conn = rpc_server.conn,
            !.edges = viaEdges,
            !.first = (rpc_server.channels_conn # rpc_server.conn)]

\* A pass that sends subscribeChannels for a changed list without
\* `self._count += 1`.
update_subscriptions_same_count(u) ==
  LET subscribe_in_progress_channels == registered_channels.keys
  IN IF rpc_server.connected
        /\ subscribe_in_progress_channels # u.active_subscriptions
     THEN IF u.active_subscriptions = <<>>
          THEN [u EXCEPT !.pc = "await_edges",
                         !.before = u.count, !.failed = FALSE,
                         !.in_progress = subscribe_in_progress_channels,
                         !.conn = rpc_server.conn]
          ELSE send_channels(
                 [u EXCEPT !.in_progress = subscribe_in_progress_channels,
                           !.before = u.count, !.failed = FALSE],
                 u.count, FALSE)
     ELSE u

\* One pass of the loop of _update_subscriptions_forever after sleep(5), up
\* to its first await.
update_subscriptions(u) ==
  LET subscribe_in_progress_channels == registered_channels.keys
  IN IF rpc_server.connected
        /\ subscribe_in_progress_channels # u.active_subscriptions
     THEN IF u.active_subscriptions = <<>>
          THEN [u EXCEPT !.pc = "await_edges",
                         !.before = u.count, !.failed = FALSE,
                         !.in_progress = subscribe_in_progress_channels,
                         !.conn = rpc_server.conn]
          ELSE send_channels(
                 [u EXCEPT !.in_progress = subscribe_in_progress_channels,
                           !.before = u.count, !.failed = FALSE],
                 u.count + 1, FALSE)
     ELSE u

SyncTick ==
  /\ updater.pc = "sleep"
  /\ updater.count < MaxCount
  /\ updater' = update_subscriptions(updater)
  /\ rpc_server' = IF updater'.pc = "await_channels"
                   THEN [rpc_server EXCEPT !.channels_conn = rpc_server.conn]
                   ELSE rpc_server
  /\ UNCHANGED edgeVars
  /\ UNCHANGED <<backend, env>>
  /\ UNCHANGED auxVars

\* subscribeEdges returns: _count = 0, then subscribeChannels is sent.
SubscribeEdgesOk ==
  /\ updater.pc = "await_edges"
  /\ rpc_server.connected /\ updater.conn = rpc_server.conn
  /\ updater' = send_channels(updater, 0, TRUE)
  /\ rpc_server' = [rpc_server EXCEPT !.channels_conn = rpc_server.conn]
  /\ UNCHANGED edgeVars
  /\ UNCHANGED <<backend, env>>
  /\ UNCHANGED auxVars

\* A successful subscribeChannels that leaves _active_subscriptions alone.
subscribed_keeps_active(u) == Idle(u)

\* `self._active_subscriptions = subscribe_in_progress_channels`, and the
\* loop returns to its sleep.
subscribed(u) == Idle([u EXCEPT !.active_subscriptions = u.in_progress])

\* subscribeChannels returns: the pushed list becomes the active one.
SubscribeChannelsOk ==
  /\ updater.pc = "await_channels"
  /\ rpc_server.connected /\ updater.conn = rpc_server.conn
  /\ updater' = subscribed(updater)
  /\ UNCHANGED edgeVars
  /\ UNCHANGED <<rpc_server, backend, env>>
  /\ UNCHANGED auxVars

\* Either call raises TransportError or ProtocolError: logged, next pass.
SubscribeFail ==
  /\ updater.pc \in {"await_edges", "await_channels"}
  /\ updater' = [Idle(updater) EXCEPT !.failed = TRUE]
  /\ UNCHANGED edgeVars
  /\ UNCHANGED <<rpc_server, backend, env>>
  /\ UNCHANGED auxVars

(* -------------------------------- stop --------------------------------- *)

\* Task.cancel() on the reconnect task: it is suspended at an await, where
\* CancelledError is raised and passes every except clause of the loop.
cancel(pc) == IF pc \in {"unstarted", "crashed"} THEN pc ELSE "cancelled"

\* stop() that does not cancel the reconnect task.
stop_begin_no_cancel(b) ==
  [b EXCEPT !.reconnect_task = FALSE, !.stop = "closing"]

\* OpenEMSBackend.stop up to `await self.rpc_server.close()`.
stop_begin(b) ==
  [b EXCEPT !.pc = IF b.reconnect_task THEN cancel(b.pc) ELSE b.pc,
            !.reconnect_task = FALSE,
            !.stop = "closing"]

StopBegin ==
  /\ backend.stop = "idle"
  /\ backend.stops < MaxStops
  /\ backend' = stop_begin(backend)
  /\ UNCHANGED edgeVars
  /\ UNCHANGED <<rpc_server, updater, env>>
  /\ UNCHANGED auxVars

\* OpenEmsEdgeChannelSubscriptionUpdater.stop: the task is cancelled.
updater_stop(u) == [Idle(u) EXCEPT !.pc = "cancelled"]

\* close() returns: the session is closed, and the_edge.stop() cancels the
\* updater's task.
StopEnd ==
  /\ backend.stop = "closing"
  /\ rpc_server' = [rpc_server EXCEPT !.connected = FALSE, !.authed = FALSE]
  /\ backend' = [backend EXCEPT
       !.rpc_server_task = IF @ = "running" THEN "done" ELSE @,
       !.stop = "idle", !.stops = @ + 1]
  /\ updater' = updater_stop(updater)
  /\ UNCHANGED edgeVars
  /\ UNCHANGED env
  /\ UNCHANGED auxVars

(* --------------------------- specifications ---------------------------- *)

\* The edge driven through its public methods, as the unit tests drive it.
Next ==
  \/ \E h \in Handlers : RegisterCallback(h)
  \/ \E h \in Handlers : UnregisterCallback(h)
  \/ \E params \in Snapshots : CurrentData(params)
  \/ SetUnavailable

Spec == Init /\ [][Next]_vars

\* The snapshots the device sends in the specification of the writes.
WriteSnapshots == {<<Entry(n, x)>> : n \in Names, x \in RawValues}

\* Property writes, with data arriving and the connection dropping meanwhile.
NextWrite ==
  \/ \E h \in Handlers : RegisterCallback(h)
  \/ \E h \in Handlers : UnregisterCallback(h)
  \/ \E params \in WriteSnapshots : CurrentData(params)
  \/ SetUnavailable
  \/ \E d \in 0..MaxRaw : UpdateValue(d)
  \/ WriteOk
  \/ WriteFail
  \/ ConnectionLost

SpecWrite == Init /\ [][NextWrite]_vars

\* The snapshots the device sends in the specification of the tasks.
TaskSnapshots == {<<Entry(N_S, NoneV)>>}

\* A started backend: the reconnect task, the updater's task and stop(),
\* with channels registering and data arriving meanwhile.
NextConn ==
  \/ \E h \in Handlers : RegisterCallback(h)
  \/ \E h \in Handlers : UnregisterCallback(h)
  \/ \E params \in TaskSnapshots : CurrentData(params)
  \/ ConnectionLost
  \/ ServerAccepts
  \/ Start
  \/ ReconnectLoop
  \/ ReconnectConnectionLost
  \/ ReconnectConnect
  \/ ConnectOk
  \/ ConnectFail
  \/ LoginOk
  \/ LoginFail
  \/ SyncTick
  \/ SubscribeEdgesOk
  \/ SubscribeChannelsOk
  \/ SubscribeFail
  \/ StopBegin
  \/ StopEnd

SpecConn == Init /\ [][NextConn]_vars

\* The registered channels and the notifications the server sends.
NextRpc ==
  \/ RegisterCallback("S")
  \/ UnregisterCallback("S")
  \/ \E e \in EdgeIds, m \in MethodNames, p \in Params : EdgeRpc(e, m, p)

SpecRpc == Init /\ [][NextRpc]_vars

\* Writes of a property under each update-group rule the catalog may hold.
InitGroup ==
  /\ InitCore
  /\ InitRpc
  /\ \E rule \in Rules : group = GroupInit(rule)
  /\ disc = DiscIdle
  /\ setup = SetupDone
  /\ InitProps

NextGroup ==
  \/ \E v \in RawValues \ {NoneV} : GroupWrite(v)
  \/ \E n \in GroupProps, x \in RawValues : GroupData(n, x)
  \/ ConnectionLost

SpecGroup == InitGroup /\ [][NextGroup]_vars

\* Runs of read_components against an edge that lists some components.
NextDisc ==
  \/ \E S \in SUBSET Comps : ReadComponents(S)
  \/ ReadComponentsFail
  \/ FetchOk
  \/ FetchFail
  \/ \E D \in {{}, {"_host"}, {"_host", "evcs0"}} : InfoOk(D)
  \/ InfoFail
  \/ DiscReset

SpecDisc == Init /\ [][NextDisc]_vars

\* async_setup_entry is called: OpenEMSBackend and its edge are constructed.
InitSetup ==
  /\ InitEdge
  /\ rpc_server = [connected |-> FALSE, conn |-> 0, authed |-> FALSE,
                   channels_conn |-> 0]
  /\ backend = BackendInit("none")
  /\ InitRpc
  /\ group = GroupInit(NoRule)
  /\ disc = DiscIdle
  /\ setup = SetupStart
  /\ InitProps

NextSetup ==
  \/ SetupConnectOk
  \/ SetupConnectFail
  \/ SetupLoginOk
  \/ SetupLoginFail
  \/ SetupStoredComponents
  \/ \E S \in SUBSET Comps : SetupReadComponents(S)
  \/ SetupReadComponentsFail
  \/ FetchOk
  \/ FetchFail
  \/ AuxConnectOk
  \/ AuxConnectFail
  \/ AuxLoginOk
  \/ AuxLoginFail
  \/ AuxSubscribeOk
  \/ AuxSubscribeFail
  \/ \E D \in {{}, {"_host"}, {"_host", "evcs0"}} : AuxData(D)
  \/ AuxTimeout
  \/ SetupDiscovered
  \/ SetupDiscoveryFail
  \/ SetupFinish

SpecSetup == InitSetup /\ [][NextSetup]_vars

\* An enum property constructed with any list of options.
InitEnum ==
  /\ InitCore
  /\ InitRpc
  /\ group = GroupInit(NoRule)
  /\ disc = DiscIdle
  /\ setup = SetupDone
  /\ classify = ClassifyIdle
  /\ \E options \in OptionLists : enum_property = EnumInit(options)
  /\ time_property = TimeInit

NextEnum == \E value \in EnumRaw : EnumData(value)

SpecEnum == InitEnum /\ [][NextEnum]_vars

NextTime == \E value \in TimeRaw : TimeData(value)

SpecTime == Init /\ [][NextTime]_vars

NextTimeWrite ==
  \/ \E h \in TimeHours : \E m \in TimeMinutes : TimeWrite(TimeV(h, m))
  \/ TimeEcho
  \/ \E value \in {NoneV, TimeStr(<<Word>>)} : TimeData(value)

SpecTimeWrite == Init /\ [][NextTimeWrite]_vars

NextNumber ==
  \/ NumberConstruct
  \/ \E m \in MultiplierDefs : SetMultiplierDef(m)
  \/ \E def \in LimitDefs : SetLimitDef(def)

SpecNumber == Init /\ [][NextNumber]_vars

\* What a device sends for a sensor channel: null, an integer, a number
\* with a fraction, a string.
SensorRaw ==
  RawValues \cup {FloatV(n) : n \in 0..MaxRaw}
            \cup {[t |-> "str", v |-> 0, s |-> <<c>>] : c \in {"A", "a"}}

SensorSnapshots ==
  {<<Entry(N_S, x)>> : x \in SensorRaw}
    \cup {<<Entry(N_P, y), Entry(N_S, x)>> : x \in SensorRaw, y \in RawValues}

NextSensor ==
  \/ RegisterCallback("S")
  \/ UnregisterCallback("S")
  \/ \E params \in SensorSnapshots : CurrentData(params)
  \/ SetUnavailable

SpecSensor == Init /\ [][NextSensor]_vars

NextClassify ==
  \/ \E n \in 1..MaxChannels :
       \E chs \in [1..n -> ChannelDefs] :
         \E props \in SUBSET {RefProperty} :
           PrepareEntities({"evcs0"}, chs, props, FALSE)
  \/ ClassifyChannel

SpecClassify == Init /\ [][NextClassify]_vars

\* Configurations whose channels all classify, with any entries carrying
\* channel lists.
NextEntities ==
  \/ \E S \in SUBSET Comps : \E multi_edge \in BOOLEAN :
       \E n \in 0..MaxChannels :
         \E chs \in [1..n -> {SensorDef, NumberDef("number")}] :
           PrepareEntities(S, chs, {}, multi_edge)
  \/ ClassifyChannel

SpecEntities == Init /\ [][NextEntities]_vars

\* An edge whose entities were prepared, in operation.
NextOperate ==
  \/ \E S \in {{"evcs0"}, {"_host", "evcs0"}} : \E multi_edge \in BOOLEAN :
       PrepareEntities(S, <<SensorDef, NumberDef("number")>>, {}, multi_edge)
  \/ ClassifyChannel
  \/ RegisterCallback("S")
  \/ UnregisterCallback("S")
  \/ \E x \in RawValues : CurrentData(<<Entry(N_S, x)>>)
  \/ SetUnavailable
  \/ \E d \in 0..MaxRaw : UpdateValue(d)
  \/ WriteOk
  \/ WriteFail
  \/ ConnectionLost

SpecOperate == Init /\ [][NextOperate]_vars

\* The updater on a session that stays connected and authenticated.  The
\* counter is followed up to MaxCount: the registrations change, and a push
\* fails, only while the pushes that remain fit below that bound.
SyncRegister(h) ==
  /\ updater.count < MaxCount - 1
  /\ RegisterCallback(h)

SyncUnregister(h) ==
  /\ updater.count < MaxCount - 1
  /\ UnregisterCallback(h)

SyncFail ==
  /\ updater.count < MaxCount
  /\ SubscribeFail

NextSync ==
  \/ \E h \in Handlers : SyncRegister(h)
  \/ \E h \in Handlers : SyncUnregister(h)
  \/ SyncTick
  \/ SubscribeEdgesOk
  \/ SubscribeChannelsOk
  \/ SyncFail

\* The loop's sleep(5) ends, and every RPC returns or raises.
SyncFairness ==
  /\ WF_vars(SyncTick)
  /\ WF_vars(SubscribeEdgesOk \/ SubscribeChannelsOk \/ SyncFail)

SpecSync == Init /\ [][NextSync]_vars /\ SyncFairness

\* A number property with any of the expressions, fed by the device.
InitRefNumber ==
  /\ \E mdef \in MultiplierExprs, ldef \in LowerExprs, udef \in UpperExprs :
       InitEdgeWith(RefNumberInit(mdef, ldef, udef))
  /\ rpc_server = [connected |-> TRUE, conn |-> 1, authed |-> TRUE,
                   channels_conn |-> 0]
  /\ backend = BackendInit("running")
  /\ InitRpc
  /\ group = GroupInit(NoRule)
  /\ disc = DiscIdle
  /\ setup = SetupDone
  /\ InitProps

NextRefNumber ==
  \/ \E x \in RefValues : RefData(x)
  \/ \E x \in RefValues : OwnData(x)

SpecRefNumber == InitRefNumber /\ [][NextRefNumber]_vars

NextPlaced ==
  \/ InitChannels
  \/ PlaceChannel

SpecPlaced == Init /\ [][NextPlaced]_vars

\* Writes of a property whose rule bundles one sibling, of any class.
InitSibling ==
  /\ InitCore
  /\ InitRpc
  /\ \E sib \in SiblingKinds :
       group = [sibling |-> sib, fed |-> NoneV]
                 @@ GroupInit([requires |-> <<PropA>>, when |-> NoneV])
  /\ disc = DiscIdle
  /\ setup = SetupDone
  /\ InitProps

NextSibling ==
  \/ SiblingData
  \/ \E v \in RawValues \ {NoneV} : GroupWrite(v)

SpecSibling == InitSibling /\ [][NextSibling]_vars

\* The event loop runs a task whose awaited timer, task or call has
\* completed, and every connect and login attempt gets its outcome.
Fairness ==
  /\ WF_vars(ReconnectLoop)
  /\ WF_vars(ReconnectConnectionLost)
  /\ WF_vars(ReconnectConnect)
  /\ WF_vars(ConnectOk \/ ConnectFail)
  /\ WF_vars(LoginOk \/ LoginFail)

SpecLive == Init /\ [][NextConn]_vars /\ Fairness

(* ------------------------------- claims -------------------------------- *)

Registered(h) == \E n \in Names : h \in RegGet(registered_channels, n)

Delivered(h, n, x) ==
  \E k \in 1..Len(last.calls) : last.calls[k] = Call(h, n, x)

\* C1: whenever set_unavailable has been called, it completed without
\* error, delivered a None update to every handler registered for every name
\* in current_channel_data, and left the active-subscription list empty.
C1_SetUnavailableCompletes ==
  last.op = "set_unavailable" =>
    /\ last.result = "ok"
    /\ \A i \in 1..Len(current_channel_data) :
         \A h \in RegGet(registered_channels, current_channel_data[i].name) :
           Delivered(h, current_channel_data[i].name, NoneV)
    /\ updater.active_subscriptions = <<>>

\* C2: the first subscribeChannels sent on a session follows a successful
\* subscribeEdges of the same pass and carries count 0 and the non-empty
\* list of registered names taken at the start of the pass.
C2_ResubscribeFromIdle ==
  (updater.pc = "await_channels" /\ updater.first) =>
    /\ updater.edges
    /\ updater.count = 0
    /\ updater.in_progress # <<>>
    /\ updater.conn = rpc_server.channels_conn

\* C2 witness: the first push on a session opened by the reconnect task.
C2_Witness ==
  /\ updater.pc = "await_channels" /\ updater.first
  /\ updater.conn > 1
  /\ rpc_server.connected /\ rpc_server.authed

\* C3: between start() and stop() the reconnect task has not terminated.
C3_ReconnectTaskAlive ==
  backend.reconnect_task => backend.pc # "crashed"

\* C4: once the server accepts every connect and login, a running reconnect
\* task eventually has the session connected and authenticated (unless the
\* backend is stopped).
C4_EventuallyAuthenticated ==
  [](  (env.accepts /\ backend.reconnect_task /\ backend.pc # "crashed")
    => <>(\/ ~backend.reconnect_task
          \/ backend.pc = "crashed"
          \/ rpc_server.connected /\ rpc_server.authed))

Stopped == backend.stops > 0

\* A step that issues connect, authenticateWithPassword, subscribeEdges or
\* subscribeChannels: the issuing task moves to the await of that call.
IssuesCall ==
  \/ backend'.pc \in {"connecting", "login"} /\ backend'.pc # backend.pc
  \/ updater'.pc \in {"await_edges", "await_channels"}
       /\ updater'.pc # updater.pc

\* C5: once stop() has returned (once or several times), the reconnect task
\* and the updater's task do not run, the session is closed, and no connect,
\* authenticate, subscribeEdges or subscribeChannels call is issued again.
C5_StopQuiesces ==
  /\ [](Stopped =>
         /\ backend.pc \in {"unstarted", "cancelled", "crashed"}
         /\ ~backend.reconnect_task
         /\ updater.pc = "cancelled"
         /\ ~rpc_server.connected)
  /\ [][Stopped => ~IssuesCall]_vars

\* C5 witness: stop() has returned twice on a backend that was started.
C5_Witness == backend.stops = 2 /\ backend.pc = "cancelled"

\* C6: every key of the registry maps to a non-empty set of handlers, no
\* key occurs twice, and registering a handler a second time changes nothing.
C6_RegistryWellFormed ==
  LET reg == registered_channels
  IN /\ \A i \in 1..Len(reg.keys) : reg.sets[reg.keys[i]] # {}
     /\ \A i, j \in 1..Len(reg.keys) : i # j => reg.keys[i] # reg.keys[j]
     /\ \A h \in Handlers : \A o \in Orders(ChannelNames(h)) :
          LET once == register_channel(reg, o, h)
          IN \A o2 \in Orders(ChannelNames(h)) :
               register_channel(once, o2, h) = once

\* C6 witness: the number property was registered, received a reference
\* value and was unregistered again, while the sensor stays registered.
C6_Witness ==
  /\ last.op = "unregister_callback"
  /\ registered_channels.keys = <<N_S>>
  /\ registered_channels.sets[N_S] = {"S"}
  /\ number.ref # NoneV

\* C7: a registered number property is in the registry under its own name
\* and under its reference channel, an unregistered one under no name; and
\* registering it and then unregistering it restores the registry.
C7_NumberRegisterUnregister ==
  /\ callback["P"] => \A n \in {N_P, N_S} :
                         "P" \in RegGet(registered_channels, n)
  /\ ~callback["P"] =>
       /\ ~Registered("P")
       /\ \A o \in Orders(ChannelNames("P")) :
            LET r1 == register_channel(registered_channels, o, "P")
                r2 == unregister_channel(r1, "P")
            IN /\ \A n \in {N_P, N_S} : "P" \in RegGet(r1, n)
               /\ \A n \in Names : "P" \notin RegGet(r2, n)
               /\ r2 = registered_channels

\* C7 witness: the number property is registered next to the sensor.
C7_Witness ==
  /\ last.op = "register_callback"
  /\ registered_channels.sets[N_S] = {"S", "P"}
  /\ registered_channels.sets[N_P] = {"P"}

C9_AllUnavailableAfterLoss ==
  (last.op = "set_unavailable" /\ last.result = "ok") =>
    \A h \in Handlers : Registered(h) => current_value[h] = NoneV

\* C10: a step changes a channel's current value only if it is currentData
\* or set_unavailable; no step of a write does.
C10_WritesLeaveValues ==
  [][current_value' # current_value =>
       last'.op \in {"currentData", "set_unavailable"}]_vars

\* C10 witness: a write of the number property was accepted by the device
\* and the property still has no value.
C10_Witness ==
  /\ last.op = "update_value" /\ last.result = "ok"
  /\ current_value["P"] = NoneV

EdgeState ==
  <<registered_channels, current_channel_data, callback, current_value,
    number, component_config, updater, last>>

\* C11: a notification whose edgeId is not the owned edge's id is dropped:
\* registry, current data, stored configuration, channel values, number
\* config and updater are unchanged and no handler is called, whatever its
\* method and params.
C11_ForeignEdgeNoOp ==
  [][(rpc'.seq # rpc.seq /\ rpc'.edgeId # OwnedEdge)
       => (rpc'.result = "dropped" /\ UNCHANGED EdgeState)]_vars

\* C11 witness: a currentData for a foreign edge arrived while the sensor
\* is registered and holds a value.
C11_Witness ==
  /\ rpc.edgeId # OwnedEdge /\ rpc.method = "currentData"
  /\ Registered("S") /\ current_value["S"] = IntV(1)

\* C12: after a notification for the owned edge whose method is neither
\* currentData nor edgeConfig, the notification was logged and dropped (no
\* exception) and the stored configuration is what it was before.
C12_UnknownMethodDropped ==
  (rpc.edgeId = OwnedEdge /\ rpc.method \notin NotificationHandlers
     /\ rpc.method # "none")
    => (rpc.result = "dropped" /\ component_config = rpc.before)

\* The property names an updateComponentConfig entry is expected to carry.
C13_Name(n) ==
  CASE n = PropX -> [first |-> "m", rest |-> "ode"]
    [] n = PropA -> [first |-> "p", rest |-> "ower"]
    [] n = PropB -> [first |-> "e", rest |-> "nabled"]

\* The RPC of the most recent write carries the written property first and,
\* when the rule has no guard or its guard equals the written value, every
\* sibling of the rule under its own name with its value at that time.
C13_Payload(properties) ==
  LET rule == group.rule
      bundle == rule.when = NoneV \/ rule.when = group.new_value
  IN /\ properties[1] = [name |-> C13_Name(PropX), value |-> group.new_value]
     /\ Len(properties) = 1 + (IF bundle THEN Len(rule.requires) ELSE 0)
     /\ bundle => \A i \in 1..Len(rule.requires) :
          properties[i + 1] = [name |-> C13_Name(rule.requires[i]),
                               value |-> group.at[rule.requires[i]]]

\* C13 as stated: every write of the property sends exactly one
\* updateComponentConfig RPC, with the payload the rule prescribes.
C13_OneRpcPerWrite ==
  group.result # "none" =>
    (Len(group.sent) = 1 /\ C13_Payload(group.sent[1]))

\* C13 amended: a write made while the transport is connected sends exactly
\* one updateComponentConfig RPC with the payload the rule prescribes; a
\* write made while it is not connected sends none.
C13_OneRpcWhenConnected ==
  /\ group.result = "sent" =>
       (Len(group.sent) = 1 /\ C13_Payload(group.sent[1]))
  /\ group.result = "skipped" =>
       (group.sent = <<>> /\ ~rpc_server.connected)

\* C13 witness: a write whose guard is met bundles two siblings that hold
\* different values.
C13_Witness ==
  /\ group.result = "sent"
  /\ group.rule.when = group.new_value
  /\ Len(group.sent[1]) = 3
  /\ group.at[PropA] # group.at[PropB] /\ group.at[PropA] # NoneV

\* C14: a raw value r delivered to the registered number property is held
\* as multiplier * r, and an update_value(d) made while connected raises
\* nothing and sends d / multiplier with the multiplier it divides by not 0.
C14_MultiplierRoundTrip ==
  /\ \A r \in 0..MaxRaw :
       (last.op = "currentData" /\ last.arg = <<Entry(N_P, IntV(r))>>
          /\ Registered("P"))
         => current_value["P"] = IntV(number.multiplier * r)
  /\ (last.op = "update_value" /\ last.result # "skipped") =>
       /\ last.result # "ZeroDivisionError"
       /\ write.pc = "await" => write.den # 0

\* C15: once every channel fetch of a discovery has been attempted, the
\* components of the result are exactly the listed ones whose fetch did not
\* fail, each with its channel list; every listed component was attempted;
\* and discovery never raises because of a channel fetch.
C15_PartialDiscovery ==
  /\ disc.pc \in {"info", "done"} =>
       \A c \in Comps :
         /\ disc.components[c] = "channels" <=> c \in disc.listed \ disc.failed
         /\ disc.components[c] = "absent" <=> c \notin disc.listed \ disc.failed
  /\ disc.pc = "raised" => disc.cause \in {"getEdgeConfig", "info"}
  /\ disc.pc = "fetch" =>
       (disc.todo # <<>> /\ disc.failed \subseteq disc.listed)

\* C15 witness: a discovery completed although the first and the third of
\* four components failed; the second and fourth are in the result.
C15_Witness ==
  /\ disc.pc = "done"
  /\ disc.listed = Comps
  /\ disc.failed = {"_host", "meter0"}
  /\ disc.components["evcs0"] = "channels"
  /\ disc.components["ctrl0"] = "channels"

(* C16: when building a number property's limit or multiplier expressions
   fails for any reason, only that channel is dropped: prepare_entities
   completes and every other channel is classified. *)
C16_Builds(i) ==
  \/ classify.channels[i].type = "sensor"
  \/ set_limit_def(classify.channels[i].expr, classify.json_properties) = "ok"

C16_OnlyFailingChannelDropped ==
  classify.pc \in {"done", "raised"} =>
    /\ classify.pc = "done"
    /\ classify.kept = {i \in DOMAIN classify.channels : C16_Builds(i)}
    /\ classify.dropped = {i \in DOMAIN classify.channels : ~C16_Builds(i)}

(* C17: whenever initial setup fails at connect or authenticate, and whenever
   the auxiliary discovery session fails, the WebSocket opened for that
   attempt is closed before the failure is reported. *)
C17_FailureClosesSocket ==
  /\ (setup.pc = "failed" /\ setup.cause \in {"connect", "authenticate"})
       => ~rpc_server.connected
  /\ setup.aux = "raised" => ~setup.aux_open

(* C18: feeding an enum property any raw value that is not one of its
   configured options (an unknown string, or a non-string such as a number)
   collapses the cached current value to None and makes current_option
   None. *)
C18_IsOption(e, value) ==
  /\ IsStr(value)
  /\ \E i \in DOMAIN e.given : e.given[i] = value.s

C18_UnknownCollapsesToNone ==
  (enum_property.n = 1 /\ ~C18_IsOption(enum_property, enum_property.fed)) =>
    /\ IsNone(enum_property.current_value)
    /\ IsNone(current_option(enum_property))

(* C19: after an enum property receives a raw value that is one of its
   configured options, current_option equals that option string exactly as
   the device sent it. *)
C19_OptionAsSent ==
  (enum_property.n = 1 /\ C18_IsOption(enum_property, enum_property.fed)) =>
    current_option(enum_property) = enum_property.fed

(* C20: decoding by a time property is total: no update raises, and the
   decoded value is time(h, m) exactly when the raw value is a string "H:M"
   with 0 <= h <= 23 and 0 <= m <= 59, and None for every other input. *)
C20_IsHourMinute(value) ==
  /\ IsStr(value)
  /\ Len(value.fields) = 2
  /\ \A i \in 1..2 : value.fields[i].numeric /\ ~value.fields[i].wide
  /\ value.fields[1].n >= 0 /\ value.fields[1].n <= 23
  /\ value.fields[2].n >= 0 /\ value.fields[2].n <= 59

C20_TimeDecodingTotal ==
  time_property.n = 1 =>
    /\ ~time_property.raised
    /\ native_value(time_property) =
         IF C20_IsHourMinute(time_property.fed)
         THEN TimeV(time_property.fed.fields[1].n,
                    time_property.fed.fields[2].n)
         ELSE NoneV

(* C21: async_set_value(t) sends the zero-padded string "HH:MM", and
   decoding that string when the device echoes it yields t again. *)
C21_Echoed ==
  /\ IsStr(time_property.sent)
  /\ IsStr(time_property.fed)
  /\ Len(time_property.fed.fields) = 2
  /\ time_property.fed.fields[1] = Num(IntOf(time_property.sent.hh))
  /\ time_property.fed.fields[2] = Num(IntOf(time_property.sent.mm))

C21_TimeRoundTrip ==
  /\ IsStr(time_property.sent) =>
       /\ Len(time_property.sent.hh) = 2 /\ Len(time_property.sent.mm) = 2
       /\ \A i \in 1..2 : /\ time_property.sent.hh[i] \in 0..9
                           /\ time_property.sent.mm[i] \in 0..9
       /\ 10 * time_property.sent.hh[1] + time_property.sent.hh[2]
            = time_property.written.h
       /\ 10 * time_property.sent.mm[1] + time_property.sent.mm[2]
            = time_property.written.m
  /\ C21_Echoed =>
       /\ ~time_property.raised
       /\ native_value(time_property) = time_property.written

C21_Witness ==
  /\ C21_Echoed
  /\ time_property.written = TimeV(9, 5)
  /\ time_property.sent.hh = <<0, 9>>
  /\ time_property.sent.mm = <<0, 5>>
  /\ time_property.current_value = TimeV(9, 5)

(* C22: with the constant expressions lower = 1, upper = 100 and
   multiplier = 2, _update_config yields step = 10, lower_limit = 10 and
   upper_limit = 200. *)
C22_Case == last.op = "set_limit_def" /\ last.arg = <<2, 1, 100>>

C22_StepTen ==
  C22_Case =>
    /\ number.step = 10
    /\ number.lower_limit = 10
    /\ number.upper_limit = 200

(* C22, amended: with these expressions the scaled bounds are 2..200 and
   _update_config yields step = 1, lower_limit = 2 and upper_limit = 200. *)
C22_StepOne ==
  C22_Case =>
    /\ number.multiplier = 2
    /\ number.step = 1
    /\ number.lower_limit = 2
    /\ number.upper_limit = 200

C22_Witness == C22_Case /\ number.step = 1

(* C23: after currentData delivers raw value v for a registered plain sensor
   channel, the channel's cached current value is v itself for every scalar
   type the device can send (integer, floating-point, string); it is None
   only when the device sent null or the connection was lost. *)
C23_LastValueSeen ==
  (last.op = "currentData" /\ last.result = "ok") =>
    \A i \in 1..Len(last.arg) :
      (last.arg[i].name = N_S /\ Delivered("S", N_S, last.arg[i].value)) =>
        current_value["S"] = last.arg[i].value

(* C24: for every channel, unique_id() equals hostname + "/" + edge id + "/"
   + component name + "/" + channel name, and returns the same string on
   every call, unaffected by any intervening currentData, register,
   unregister, write or connection-loss operation. *)
C24_Ids(cl) == [k \in cl.kept |-> unique_id(cl, k)]

C24_UniqueIdStable ==
  [][classify.pc = "done" =>
       /\ C24_Ids(classify)' = C24_Ids(classify)
       /\ \A k \in classify.kept :
            unique_id(classify, k) =
              classify.hostname \o <<"/">> \o <<OwnedEdge>> \o <<"/">>
                \o <<ConfigComponents(classify)[owner(classify, k)]>>
                \o <<"/">> \o <<k>>]_vars

C24_Witness ==
  /\ classify.pc = "done"
  /\ classify.kept = {1, 2}
  /\ last.op = "update_value"
  /\ Registered("S")
  /\ ~rpc_server.connected
  /\ current_channel_data # <<>>

(* C25: after prepare_entities, edge.components holds one component for
   exactly each configuration entry that carries a channel list, in
   configuration order; edge.hostname is _host's Hostname, with " " + edge
   id appended when the backend serves multiple edges; and every created
   channel's unique_id starts with that hostname. *)
C25_PreparedEntities ==
  classify.pc = "done" =>
    /\ Len(classify.components) = Cardinality(classify.with_channels)
    /\ \A c \in Comps :
         (c \in classify.with_channels) <=>
           (\E j \in DOMAIN classify.components : classify.components[j] = c)
    /\ \A j, k \in DOMAIN classify.components :
         \A a, b \in DOMAIN CompOrder :
           (j < k /\ CompOrder[a] = classify.components[j]
                  /\ CompOrder[b] = classify.components[k]) => a < b
    /\ Head(classify.hostname) = "h1"
    /\ classify.multi_edge =>
         Tail(classify.hostname) = <<" ", OwnedEdge>>
    /\ ~classify.multi_edge => Tail(classify.hostname) = <<>>
    /\ \A k \in classify.kept :
         SubSeq(unique_id(classify, k), 1, Len(classify.hostname))
           = classify.hostname

C25_Witness ==
  /\ classify.pc = "done"
  /\ classify.with_channels = {"evcs0", "ctrl0"}
  /\ classify.multi_edge
  /\ classify.components = <<"evcs0", "ctrl0">>
  /\ classify.kept = {1, 2, 3}

\* A pass of the updater's loop that issues a subscribe RPC.
Pushes == updater.pc = "sleep"
          /\ updater'.pc \in {"await_edges", "await_channels"}

(* C26: a tick of the subscription-sync task issues subscribe RPCs only if
   the transport is connected and the set of registered channel names
   differs from the last-pushed set; when both hold the same names, in
   whatever order they were registered, the tick issues no RPC. *)
C26_PushOnlyOnSetChange ==
  [][Pushes =>
       /\ rpc_server.connected
       /\ SeqRange(registered_channels.keys)
            # SeqRange(updater.active_subscriptions)]_vars

\* A step that sends subscribeChannels(count, channels).
SendsChannels == updater.pc # "await_channels"
                 /\ updater'.pc = "await_channels"

(* C27: a subscribeChannels sent while no subscription is active follows a
   successful subscribeEdges of the same pass and carries count 0; one sent
   while a subscription is active is sent without subscribeEdges and carries
   a count greater than the count of every subscribeChannels sent since the
   last subscribeEdges (the counter changes only when subscribeChannels is
   sent, so it is the greatest of them); each carries the whole list of
   registered names the pass computed. *)
C27_EdgesFirstThenCounting ==
  [][/\ (SendsChannels /\ updater.active_subscriptions = <<>>) =>
          /\ updater.pc = "await_edges" /\ updater'.edges
          /\ updater'.count = 0
          /\ updater'.in_progress = updater.in_progress
     /\ (SendsChannels /\ updater.active_subscriptions # <<>>) =>
          /\ updater.pc = "sleep" /\ ~updater'.edges
          /\ updater'.count > updater.count
          /\ updater'.in_progress = registered_channels.keys
     /\ Pushes => updater'.in_progress = registered_channels.keys
     /\ ~SendsChannels => updater'.count = updater.count]_vars

\* C27 witness: the second subscribeChannels after a subscribeEdges is in
\* flight, sent without subscribeEdges while a subscription is active.
C27_Witness ==
  /\ updater.pc = "await_channels" /\ ~updater.edges
  /\ updater.active_subscriptions # <<>>
  /\ updater.count = 2

(* C28: when subscribeEdges or subscribeChannels of a push raises a transport
   or protocol error, the updater is left as it was before the pass: the
   task sleeps again for its next pass and the revision counter has the
   value it had when the pass began. *)
C28_FailureLeavesStateUnchanged ==
  updater.failed =>
    /\ updater.pc \in {"sleep", "cancelled"}
    /\ updater.count = updater.before

\* A step in which a subscribe RPC raises.
PushFails == updater'.failed /\ ~updater.failed

(* C29: on a session that stays connected and authenticated, if from some
   point on no subscribe RPC fails and the registered names no longer
   change, then from some point on the last-pushed list (the list the most
   recent successful subscribeChannels carried) is the list of registered
   names, also when names were registered or unregistered while an earlier
   push awaited its response. *)
C29_EventuallyInSync ==
  <>[][registered_channels' = registered_channels /\ ~PushFails]_vars
    => <>[](updater.active_subscriptions = registered_channels.keys)

\* C29 witness: a second push, needed because the names changed after the
\* first one was computed, has succeeded and both names are subscribed.
C29_Witness ==
  /\ updater.pc = "sleep" /\ ~updater.failed
  /\ updater.count = 1
  /\ Len(updater.active_subscriptions) = 2
  /\ updater.active_subscriptions = registered_channels.keys

\* A step in which _reconnect_forever calls connect_to_server().
Attempt == backend.pc # "connecting" /\ backend'.pc = "connecting"

(* C30: after a connection loss every reconnect attempt, the first one and
   each repeated attempt that follows a failed connect or a failed login, is
   preceded by an invocation of the_edge.set_unavailable() made since the
   previous attempt. *)
C30_CallbackBeforeEachAttempt == [][Attempt => backend.called]_vars

(* C30, amended: set_unavailable is invoked once for each session that
   ended.  Every attempt follows an invocation made since the latest session
   was opened; the attempt after the sleep that follows the invocation is
   preceded by it, and the only attempt without an invocation since the
   previous attempt is the one after a failed connect, when there is no
   session task to await. *)
C30_CallbackOncePerLoss ==
  [][Attempt =>
       /\ backend.marked
       /\ IF backend.pc = "sleep_lost" THEN backend.called
          ELSE /\ backend.pc = "sleep_retry"
               /\ backend.rpc_server_task = "none"
               /\ ~backend.called]_vars

\* C30 witness: a second connect attempt is under way after a failed one,
\* with no invocation of set_unavailable in between.
C30_Witness ==
  /\ backend.pc = "connecting"
  /\ ~backend.called /\ backend.marked

\* The expression references the channel and the channel's value is unset
\* or no number.
Unresolved(expr, ref) == expr.ref /\ ~IsInt(ref)

\* _update_config has run in the latest step and stored a new reference value.
ConfigRan == last.op = "reference_update" /\ last.result # "same"

(* C31: whenever _update_config runs while a channel referenced by the lower
   or upper limit expression is unset or holds no number, the limits are
   lower_limit = 0 and upper_limit = 100000, and the multiplier is what the
   multiplier expression alone yields: its constant, a numeric reference
   value, 1.0 when the reference is no number. *)
C31_UnresolvedLimitDefaults ==
  (ConfigRan /\ (Unresolved(number.ldef, number.ref)
                   \/ Unresolved(number.udef, number.ref))) =>
    /\ number.lower_limit = 0
    /\ number.upper_limit = 100000
    /\ number.multiplier = IF ~number.mdef.ref THEN number.mdef.c
                           ELSE IF IsInt(number.ref) THEN number.ref.v ELSE 1

\* C31 witness: the connection loss delivered None for the channel the upper
\* limit references, after a number had given the property other limits.
C31_Witness ==
  /\ ConfigRan /\ number.udef.ref /\ ~number.ldef.ref
  /\ IsNone(number.ref) /\ IsInt(last.arg[1].ref)
  /\ last.arg[1].upper_limit # 100000
  /\ number.upper_limit = 100000 /\ number.lower_limit = 0

(* C32: after set_limit_def and after every _update_config, for every
   combination of limit constants, reference values and multiplier value
   (zero and negative ones delivered by a referenced channel included, and
   an upper expression below the lower one), upper_limit >= lower_limit. *)
C32_UpperAtLeastLower == number.upper_limit >= number.lower_limit

\* Both limit expressions render to a number.
BothResolve ==
  /\ IsInt(Render(number.ldef, number.ref))
  /\ IsInt(Render(number.udef, number.ref))

RECURSIVE PowerOfTen(_)
PowerOfTen(n) ==
  IF n = 1 THEN TRUE
  ELSE IF n < 10 \/ n % 10 # 0 THEN FALSE ELSE PowerOfTen(n \div 10)

(* C33: when both bounds resolve, the step _update_config picks is a power
   of ten that divides the scaled range into at least STEPS sub-steps, and
   both bounds are rounded outward to multiples of it:
   lower_limit <= lower * multiplier and upper_limit >= upper * multiplier.
   Stated for a positive multiplier, where scaling keeps the bounds' order. *)
C33_StepAndOutwardRounding ==
  (ConfigRan /\ BothResolve /\ number.multiplier > 0) =>
    LET lower == Render(number.ldef, number.ref).v
        upper == Render(number.udef, number.ref).v
        m == number.multiplier
    IN /\ PowerOfTen(number.step)
       /\ number.lower_limit % number.step = 0
       /\ number.upper_limit % number.step = 0
       /\ number.lower_limit <= lower * m
       /\ number.upper_limit >= upper * m
       /\ number.step * STEPS <= upper * m - lower * m

\* (multiplier, lower_limit, upper_limit, step)
ConfigOf(num) == <<num.multiplier, num.lower_limit, num.upper_limit, num.step>>

(* C34: a value arriving for a referenced channel of a number property never
   changes the property's own current value, and notify_ha() is called for
   it exactly when at least one of multiplier, lower_limit, upper_limit and
   step differs from its previous value, which is when _update_config
   returns True. *)
C34_NotifiedExactlyOnChange ==
  [][last'.op = "reference_update" =>
       /\ current_value' = current_value
       /\ ((last'.result = "notify_ha")
             <=> (ConfigOf(number') # ConfigOf(number)))]_vars

\* C34 witness: the reference changed from one unresolvable value to another
\* while the property holds a value of its own: nothing to report.
C34_Witness ==
  /\ last.op = "reference_update" /\ last.result = "ok"
  /\ number.ref # last.arg[1].ref
  /\ IsInt(current_value["P"])

\* What the claim's table says of a channel and the collection c it is in
\* ("none": in no collection).
C35_AsTable(ch, c) ==
  IF ~ch.prefix
  THEN c = (IF ch.type = "BOOLEAN" THEN "boolean_sensors" ELSE "sensors")
  ELSE CASE ch.type = "BOOLEAN" -> c = "boolean_properties"
         [] ch.type = "STRING" ->
              c = (IF ch.options = "some" \/ ch.enum THEN "enum_properties"
                   ELSE IF ch.time THEN "time_properties" ELSE "none")
         [] ch.type = "INTEGER" ->
              /\ c \in {"number_properties", "none"}
              /\ c = "number_properties" => ch.limit # "none"
         [] OTHER -> c \in Collections \cup {"none"}

\* Where channel i is once init_channels has returned or raised.
C35_PlaceOf(i) ==
  IF i <= Len(classify.placed) THEN classify.placed[i] ELSE "none"

(* C35: init_channels places every discovered channel in at most one of the
   six collections, decided by name prefix, reported type, backend options
   and catalog rules alone: a _Property channel of type BOOLEAN is a boolean
   property; of type STRING an enum property when the backend or the catalog
   supplies options, else a time property when the catalog lists it, else
   dropped; of type INTEGER a number property only with a catalog limit
   pair; every channel without the prefix is in exactly one sensor list,
   boolean_sensors for type BOOLEAN and sensors otherwise. *)
C35_PlacedByTable ==
  classify.pc \in {"done", "raised"} =>
    \A i \in DOMAIN classify.channels :
      C35_AsTable(classify.channels[i], C35_PlaceOf(i))

\* The device reported a value the sibling's class takes.
C36_Reported(sib, x) ==
  CASE sib.kind = "time" -> IsStr(x) /\ time_parse(x.fields) = "ok"
    [] sib.kind = "enum" ->
         IsStr(x) /\ Normalise(x.s) \in DOMAIN EnumInit(sib.options).options
    [] OTHER -> IsInt(x)

\* The value in device wire form: what the device reported, as a boolean
\* for a boolean property.
C36_WireForm(sib, x) ==
  IF sib.kind = "boolean" THEN BoolV(x.v # 0) ELSE x

\* A step of update_value: nothing arrives and the write's record changes.
C36_Writes ==
  /\ group'.values = group.values /\ group'.fed = group.fed
  /\ group' # group /\ group'.result = "sent"

(* C36: in a bundled update-group write the value sent for a sibling is in
   device wire form, the value the device last reported for it: the raw
   unscaled number of a number property (not multiplier * raw), the "HH:MM"
   string of a time property, the device's own option string of an enum
   property, the boolean of a boolean property. *)
C36_SiblingInWireForm ==
  [][(C36_Writes /\ C36_Reported(group.sibling, group.fed)) =>
       group'.sent[1][2].value = C36_WireForm(group.sibling, group.fed)]_vars

\* The latest operation was a currentData whose snapshot delivered to the
\* number property both a reference value and an own number.
C37_BothDelivered ==
  /\ last.op = "currentData" /\ last.result = "ok" /\ Len(last.arg) = 2
  /\ \E i \in 1..2 : \E j \in 1..Len(last.calls) :
       /\ last.arg[i].name = N_P /\ IsInt(last.arg[i].value)
       /\ last.calls[j] = Call("P", N_S, last.arg[3 - i].value)

\* The own raw value of the number property in the latest snapshot.
C37_OwnRaw ==
  IF last.arg[1].name = N_P THEN last.arg[1].value ELSE last.arg[2].value

(* C37: after currentData has processed one snapshot holding both the number
   property's own channel and its reference channel, the current value is
   the multiplier derived from that snapshot's reference value times the
   own raw value of that snapshot, whatever the order of the two names. *)
C37_SnapshotOrderIrrelevant ==
  C37_BothDelivered =>
    /\ number.multiplier = RenderMultiplier(number.ref)
    /\ current_value["P"] = IntV(number.multiplier * C37_OwnRaw.v)

(* C38: the subscription-sync task sends subscribeEdges or subscribeChannels
   only after authenticateWithPassword has succeeded on the current
   connection, for every interleaving of the reconnect task and the tick. *)
C38_SubscribeAfterLogin ==
  [][(Pushes \/ SendsChannels) => rpc_server.authed]_vars

\* A step in which update_value is called and runs to its first await or to
\* its end.
C39_Calls ==
  /\ write.pc = "idle" /\ last'.op = "update_value"
  /\ <<write, last>>' # <<write, last>>

(* C39: update_value issued while the transport is not connected sends no
   RPC, raises no exception to the caller and leaves every channel's current
   value, the registry and the subscription state unchanged; no write is
   left pending to be replayed after the reconnect. *)
C39_DisconnectedWriteDropped ==
  [][(C39_Calls /\ ~rpc_server.connected) =>
       /\ last'.result = "skipped"
       /\ write' = NoWrite
       /\ current_value' = current_value /\ number' = number
       /\ registered_channels' = registered_channels
       /\ updater' = updater]_vars

(* C40: update_value on the number property completes without an arithmetic
   error for every multiplier the property can reach, including the
   multiplier 0 derived from a reference channel that reports 0. *)
C40_NoArithmeticError ==
  last.op = "update_value" => last.result # "ZeroDivisionError"

====
